---- MODULE Spec2Model ----
(***************************************************************************)
(* Model of the article scraper's cascading extraction pipeline            *)
(* (src/main.py and src/crawlers/*.py) and of the annotation client        *)
(* (src/process_articles_improved.py).                                     *)
(*                                                                         *)
(* Spec        : the orchestrator loop of main() over the three backends.  *)
(* SpecCrawler : one call of one backend's extract_articles.               *)
(* SpecLLM     : call_llm and process_single_article.                      *)
(* SpecHash    : calculate_content_hash on pairs of contents.              *)
(* SpecQuality : assess_content_quality on one record.                     *)
(* SpecPipeline: process_articles: deduplicate_articles, then              *)
(*               process_articles_sequentially.                            *)
(* SpecLoad    : process_articles from load_articles on, of                *)
(*               process_articles_improved.py and, for unreadable input,   *)
(*               of process_articles_sequential.py.                        *)
(* SpecRate    : the RateLimiter wrapper around successive call_llm        *)
(*               invocations, with a clock.                                *)
(* SpecParse   : call_llm's extraction of the answer from the assistant    *)
(*               message of a chat-completion envelope.                    *)
(* SpecDate    : the date of an event of PlaywrightCrawler and of          *)
(*               PlaywrightNewsScraper.                                    *)
(* SpecSequential: process_articles_sequentially called on any list.       *)
(* SpecLinks   : link discovery on a homepage, in each backend.            *)
(* SpecMock    : process_single_article of process_articles_improved.py    *)
(*               and of process_articles.py with the endpoint 'mock'.      *)
(***************************************************************************)
EXTENDS Integers, Sequences, FiniteSets, TLC

VARIABLES
    \* ---- main(): the scraping loop -------------------------------------
    num_articles,    \* the quota n of each source; source i is urls[i]
    src,             \* index of the source the for-loop is at
    pc,              \* position in the loop body
    usable_events,   \* records accepted for the current source
    all_events,      \* the aggregated output
    calls,           \* every backend invocation made so far, in order
    lastCall,        \* how the most recent backend invocation went
    used,            \* used_trafilatura, used_html, used_playwright
    counts,          \* trafilatura_count, html_count, playwright_count
    filtered_events, \* the final usability pass over all_events
    per_site_counts, \* (url, extracted, kept, cut) of each source
    \* ---- one backend call (SpecCrawler) --------------------------------
    c_backend, c_home, c_cands, c_max, c_result,
    \* ---- annotation client (SpecLLM) -----------------------------------
    caller,          \* who calls call_llm: process_single_article or a direct caller
    endpoint,        \* the endpoint argument
    article,         \* the record handed to process_single_article
    lpc,             \* position in process_single_article / call_llm
    max_retries,     \* call_llm's max_retries argument
    attempt,         \* loop variable of call_llm
    requests,        \* number of session.post calls made
    lastResponse,    \* what the most recent session.post met
    sleeps,          \* backoff sleeps made, by attempt number
    result,          \* call_llm's return value
    processed,       \* process_single_article's return value
    \* ---- calculate_content_hash (SpecHash) -----------------------------
    contents,        \* the contents hashed, in call order
    hashes,          \* the hash returned for each of them
    \* ---- assess_content_quality (SpecQuality) --------------------------
    q_articles,      \* the records assessed, in call order
    q_metrics,       \* the QualityMetrics returned for each of them
    \* ---- process_articles (SpecPipeline) -------------------------------
    articles,        \* the loaded input list
    ppc,             \* position in process_articles
    seen_hashes,     \* deduplicate_articles' seen_hashes
    unique_articles, \* deduplicate_articles' first return value
    duplicate_count, \* deduplicate_articles' second return value
    processed_articles, \* process_articles_sequentially's list
    p_module,        \* the module whose process_articles runs
    input_file,      \* what is at input_path
    output_file,     \* what has been written to output_path
    \* ---- RateLimiter around call_llm (SpecRate) -------------------------
    now,             \* time.time(), in ticks
    last_called,     \* rate_limiter.last_called
    rpc,             \* position in RateLimiter's wrapper
    wake_at,         \* when the time.sleep of line 88 is over at the earliest
    started,         \* invocations of call_llm entered so far
    cur_start,       \* when the running invocation was entered, or -1
    cur_first,       \* when the running invocation made its first request, or -1
    prev_return,     \* when the invocation before it returned, or -1
    \* ---- call_llm on a chat-completion envelope (SpecParse) -------------
    msg_content,     \* response_data['choices'][0]['message']['content']
    json_payload,    \* json_match.group(0), or empty when nothing matched
    parse_result,    \* result as line 350 leaves it
    \* ---- the date of a rendered page (SpecDate) -------------------------
    d_class,         \* PlaywrightCrawler or PlaywrightNewsScraper
    date_raw,        \* the stripped text of the element the date is read from
    dpc,             \* whether the event has been built
    event_date,      \* the event's 'date'
    \* ---- link discovery of a backend (SpecLinks) ------------------------
    ld_backend,      \* the backend whose extract_articles reads the homepage
    anchors,         \* the <a> elements of the homepage, in document order
    ld_pc,           \* whether the links have been collected
    candidate_links  \* candidate_links (seen_urls of the rendered-page backend)

mainVars  == <<num_articles, src, pc, usable_events, all_events, calls, lastCall,
               used, counts, filtered_events, per_site_counts>>
crawlVars == <<c_backend, c_home, c_cands, c_max, c_result>>
llmVars   == <<caller, endpoint, article, lpc, max_retries, attempt, requests, lastResponse,
               sleeps, result, processed>>
textVars  == <<contents, hashes, q_articles, q_metrics>>
pipeVars  == <<articles, ppc, seen_hashes, unique_articles, duplicate_count,
               processed_articles, p_module, input_file, output_file>>
rateVars  == <<now, last_called, rpc, wake_at, started, cur_start, cur_first, prev_return>>
parseVars == <<msg_content, json_payload, parse_result>>
dateVars  == <<d_class, date_raw, dpc, event_date>>
linkVars  == <<ld_backend, anchors, ld_pc, candidate_links>>
vars      == <<mainVars, crawlVars, llmVars, textVars, pipeVars, rateVars, parseVars, dateVars, linkVars>>

(***************************************************************************)
(* Bounds of the model.                                                    *)
(***************************************************************************)
MaxSources == 2     \* number of (homepage, n) pairs entered
MaxQuota   == 2     \* largest n entered for a source
MaxUrl     == 2     \* distinct article URLs a homepage links to
MaxRetries == 2     \* largest max_retries passed to call_llm
MaxHashText == 3    \* longest content handed to calculate_content_hash
MaxQualityText == 3 \* longest written-out content handed to assess_content_quality
MaxArticles == 3    \* longest input list handed to process_articles
MaxCalls   == 3     \* invocations of the rate-limited call_llm
MaxTime    == 12    \* ticks of the clock that are followed
MaxMessage == 6     \* longest assistant message, in tokens
MaxAnchors == 2     \* <a> elements on a homepage

(***************************************************************************)
(* Program constants.                                                      *)
(***************************************************************************)
MinContentLen      == 200   \* usability predicate, main.py
OverFetch          == 3     \* n*3 requested from the first two backends
DefaultMaxRetries  == 1     \* call_llm(max_retries: int = 1)
QualityThreshold   == 3     \* quality_score < 3 is low quality

NONE == "<None>"            \* Python's None / an absent key

(***************************************************************************)
(* Sequences helpers.                                                      *)
(***************************************************************************)
Range(s) == {s[i] : i \in DOMAIN s}

\* mutant of Take: the cut is forgotten
TakeAll(s, k) == s

\* s[:k]
Take(s, k) == SubSeq(s, 1, IF k < Len(s) THEN k ELSE Len(s))

\* all sequences of pairwise distinct elements of S
InjectiveSeqs(S) ==
    UNION {{s \in [1..k -> S] : \A i, j \in 1..k : i # j => s[i] # s[j]}
           : k \in 0..Cardinality(S)}

(***************************************************************************)
(* The web as the backends see it.  A homepage is fetched ("ok"), cannot   *)
(* be fetched ("fail"), or is fetched and then makes the backend raise     *)
(* while it is analysed ("raise").  Link discovery yields candidate URLs,  *)
(* pairwise distinct (each backend collects them in a set), in any order.  *)
(* The page behind a candidate: "raise" (fetching or parsing it raises),   *)
(* "none" (nothing extractable), "short" (headline, content below 200),    *)
(* "nohead" (content of 200, empty headline), "good" (usable).             *)
(***************************************************************************)
Backends  == <<"trafilatura", "html", "playwright">>
HomeKinds == {"ok", "fail", "raise"}
PageKinds == {"raise", "none", "short", "nohead", "good"}
Urls      == 1..MaxUrl

CandLists ==
    UNION {[1..Len(u) -> PageKinds] \X {u} : u \in InjectiveSeqs(Urls)}

\* candidate i of a pair <<pages, urls>>
CandUrl(cands, i)  == cands[2][i]
CandPage(cands, i) == cands[1][i]
NumCands(cands)    == Len(cands[2])

\* the event dict a backend builds from a page (content_len is
\* len(content.strip()), headline_len is len(headline.strip()))
Event(source, url, page) ==
    [article_url  |-> url,
     source_url   |-> source,
     headline_len |-> IF page \in {"short", "good"} THEN 1 ELSE 0,
     content_len  |-> CASE page = "good"   -> MinContentLen
                        [] page = "nohead" -> MinContentLen
                        [] page = "short"  -> MinContentLen - 1
                        [] OTHER           -> 0]

\* event.get('content') and len(event['content'].strip()) >= 200 and
\* event.get('headline') and len(event['headline'].strip()) > 0
IsUsable(event) ==
    event.content_len >= MinContentLen /\ event.headline_len > 0

Raised(visited) == [raised |-> TRUE, events |-> <<>>, visited |-> visited]
Returned(events, visited) == [raised |-> FALSE, events |-> events, visited |-> visited]

(***************************************************************************)
(* TrafilaturaCrawler.extract_articles: the candidate loop has no handler, *)
(* so an exception leaves the function and its events are lost.            *)
(***************************************************************************)
\* mutant of TrafilaturaLoop: only usable records count toward max_articles
RECURSIVE TrafilaturaLoopCountingUsable(_, _, _, _, _, _)
TrafilaturaLoopCountingUsable(source, cands, i, events, visited, max_articles) ==
    IF i > NumCands(cands) THEN Returned(events, visited)
    ELSE LET page == CandPage(cands, i)
             seen == Append(visited, CandUrl(cands, i))
         IN  CASE page = "raise" -> Raised(seen)
               [] page = "none"  ->
                    TrafilaturaLoopCountingUsable(source, cands, i + 1, events, seen,
                                                  max_articles)
               [] OTHER ->
                    LET evs == Append(events, Event(source, CandUrl(cands, i), page))
                    IN  IF Len(SelectSeq(evs, IsUsable)) >= max_articles
                        THEN Returned(evs, seen)
                        ELSE TrafilaturaLoopCountingUsable(source, cands, i + 1, evs, seen,
                                                           max_articles)

RECURSIVE TrafilaturaLoop(_, _, _, _, _, _)
TrafilaturaLoop(source, cands, i, events, visited, max_articles) ==
    IF i > NumCands(cands) THEN Returned(events, visited)
    ELSE LET page == CandPage(cands, i)
             seen == Append(visited, CandUrl(cands, i))
         IN  CASE page = "raise" -> Raised(seen)
               [] page = "none"  ->
                    TrafilaturaLoop(source, cands, i + 1, events, seen, max_articles)
               [] OTHER ->
                    LET evs == Append(events, Event(source, CandUrl(cands, i), page))
                    IN  IF Len(evs) >= max_articles
                        THEN Returned(evs, seen)
                        ELSE TrafilaturaLoop(source, cands, i + 1, evs, seen, max_articles)

TrafilaturaExtract(source, home, cands, max_articles) ==
    CASE home = "fail"  -> Returned(<<>>, <<>>)
      [] home = "raise" -> Raised(<<>>)
      [] OTHER -> TrafilaturaLoop(source, cands, 1, <<>>, <<>>, max_articles)

(***************************************************************************)
(* HTMLFallbackCrawler.extract_articles: everything is inside one try, and *)
(* each candidate of list(candidate_links)[:max_articles] has its own.     *)
(***************************************************************************)
RECURSIVE HtmlLoop(_, _, _, _, _, _)
HtmlLoop(source, cands, i, events, visited, max_articles) ==
    IF i > NumCands(cands) \/ i > max_articles THEN Returned(events, visited)
    ELSE LET page == CandPage(cands, i)
             seen == Append(visited, CandUrl(cands, i))
         IN  IF page = "raise"
             THEN HtmlLoop(source, cands, i + 1, events, seen, max_articles)
             ELSE HtmlLoop(source, cands, i + 1,
                           Append(events, Event(source, CandUrl(cands, i), page)),
                           seen, max_articles)

HtmlExtract(source, home, cands, max_articles) ==
    IF home # "ok" THEN Returned(<<>>, <<>>)
    ELSE HtmlLoop(source, cands, 1, <<>>, <<>>, max_articles)

(***************************************************************************)
(* PlaywrightCrawler.extract_articles with main()'s filter_func: an event  *)
(* is kept only when usable; a candidate that raises is skipped; failing   *)
(* to open the homepage raises out of the function.                        *)
(***************************************************************************)
\* mutant of PlaywrightLoop: the filter of lines 120-125 is missing
RECURSIVE PlaywrightLoopUnfiltered(_, _, _, _, _, _)
PlaywrightLoopUnfiltered(source, cands, i, usable, visited, max_articles) ==
    IF i > NumCands(cands) \/ Len(usable) >= max_articles
    THEN Returned(usable, visited)
    ELSE LET page == CandPage(cands, i)
             seen == Append(visited, CandUrl(cands, i))
             ev   == Event(source, CandUrl(cands, i), page)
         IN  IF page # "raise"
             THEN PlaywrightLoopUnfiltered(source, cands, i + 1, Append(usable, ev), seen,
                                           max_articles)
             ELSE PlaywrightLoopUnfiltered(source, cands, i + 1, usable, seen, max_articles)

RECURSIVE PlaywrightLoop(_, _, _, _, _, _)
PlaywrightLoop(source, cands, i, usable, visited, max_articles) ==
    IF i > NumCands(cands) \/ Len(usable) >= max_articles
    THEN Returned(usable, visited)
    ELSE LET page == CandPage(cands, i)
             seen == Append(visited, CandUrl(cands, i))
             ev   == Event(source, CandUrl(cands, i), page)
         IN  IF page # "raise" /\ IsUsable(ev)
             THEN PlaywrightLoop(source, cands, i + 1, Append(usable, ev), seen, max_articles)
             ELSE PlaywrightLoop(source, cands, i + 1, usable, seen, max_articles)

PlaywrightExtract(source, home, cands, max_articles) ==
    IF home # "ok" THEN Raised(<<>>)
    ELSE PlaywrightLoop(source, cands, 1, <<>>, <<>>, max_articles)

extract_articles(backend, source, home, cands, max_articles) ==
    CASE backend = "trafilatura" -> TrafilaturaExtract(source, home, cands, max_articles)
      [] backend = "html"        -> HtmlExtract(source, home, cands, max_articles)
      [] backend = "playwright"  -> PlaywrightExtract(source, home, cands, max_articles)


(***************************************************************************)
(* main(): the scraping loop.                                              *)
(***************************************************************************)
ZeroCounts == [trafilatura |-> 0, html |-> 0, playwright |-> 0]

NoCall == [backend |-> NONE, home |-> NONE, raised |-> FALSE, returned |-> 0]

\* one entry of the invocation log: which backend was invoked for which
\* source, how many records it was asked for, and how many records were
\* already accepted for that source
CallRecord(backend, max_articles) ==
    [source |-> src, backend |-> backend, max_articles |-> max_articles,
     before |-> Len(usable_events)]

\* for event in filtered: if len(usable_events) >= n: break; append
AcceptEvents(usable, events, n) ==
    usable \o Take(events, n - Len(usable))

\* mutant of TryBackend: a backend's exception discards what the source had
TryBackendDiscarding(usable, res, n, filter) ==
    IF res.raised THEN <<>>
    ELSE usable \o Take(IF filter THEN SelectSeq(res.events, IsUsable) ELSE res.events,
                        n - Len(usable))

\* the body of one try block: an exception of the backend is caught and
\* leaves usable_events as it was
TryBackend(usable, res, n, filter) ==
    IF res.raised THEN usable
    ELSE AcceptEvents(usable, IF filter THEN SelectSeq(res.events, IsUsable)
                                         ELSE res.events, n)

\* mutant of NextPc: the quota guards are missing
NextPcUnguarded(backend, usable, n) ==
    CASE backend = "trafilatura"   -> "html"
      [] backend = "html"          -> "playwright"
      [] OTHER                     -> "extend"

\* mutant of NextPc: the rendered-page backend comes second, the fallback last
NextPcFallbackLast(backend, usable, n) ==
    CASE Len(usable) >= n          -> "extend"
      [] backend = "trafilatura"   -> "playwright"
      [] backend = "playwright"    -> "html"
      [] OTHER                     -> "extend"

\* the guards of lines 107 and 122, evaluated after a backend's try block
NextPc(backend, usable, n) ==
    CASE Len(usable) >= n          -> "extend"
      [] backend = "trafilatura"   -> "html"
      [] backend = "html"          -> "playwright"
      [] OTHER                     -> "extend"

\* how many candidates main() asks a backend for
RequestSize(backend, usable, n) ==
    CASE backend = "trafilatura" -> n * OverFetch
      [] backend = "html"        -> (n - Len(usable)) * OverFetch
      [] OTHER                   -> n - Len(usable)

\* what the web can answer to one backend invocation: a homepage that
\* fails has no candidates to speak of
Webs == {<<"ok", cands>> : cands \in CandLists}
        \cup {<<home, <<<<>>, <<>>>>>> : home \in HomeKinds \ {"ok"}}

RunBackend(backend, filter) ==
    \E web \in Webs :
        LET n      == num_articles[src]
            asked  == RequestSize(backend, usable_events, n)
            res    == extract_articles(backend, src, web[1], web[2], asked)
            usable == TryBackend(usable_events, res, n, filter)
        IN  /\ usable_events' = usable
            /\ used' = [used EXCEPT ![backend] = Len(usable) - Len(usable_events)]
            /\ calls' = Append(calls, CallRecord(backend, asked))
            /\ lastCall' = [backend |-> backend, home |-> web[1], raised |-> res.raised,
                            returned |-> Len(res.events)]
            /\ pc' = NextPc(backend, usable, n)

Static ==
    /\ pc = "trafilatura"
    /\ RunBackend("trafilatura", TRUE)
    /\ UNCHANGED <<num_articles, src, all_events, counts, filtered_events, per_site_counts>>
    /\ UNCHANGED <<crawlVars, llmVars, textVars, pipeVars, rateVars, parseVars, dateVars, linkVars>>

HtmlFallback ==
    /\ pc = "html"
    /\ RunBackend("html", TRUE)
    /\ UNCHANGED <<num_articles, src, all_events, counts, filtered_events, per_site_counts>>
    /\ UNCHANGED <<crawlVars, llmVars, textVars, pipeVars, rateVars, parseVars, dateVars, linkVars>>

Playwright ==
    /\ pc = "playwright"
    /\ RunBackend("playwright", FALSE)
    /\ UNCHANGED <<num_articles, src, all_events, counts, filtered_events, per_site_counts>>
    /\ UNCHANGED <<crawlVars, llmVars, textVars, pipeVars, rateVars, parseVars, dateVars, linkVars>>

\* lines 136-139, and the for-loop's step to the next source
Extend ==
    /\ pc = "extend"
    /\ counts' = [b \in DOMAIN counts |-> counts[b] + used[b]]
    /\ all_events' = all_events \o Take(usable_events, num_articles[src])
    /\ src' = src + 1
    /\ usable_events' = <<>>
    /\ used' = ZeroCounts
    /\ pc' = IF src < Len(num_articles) THEN "trafilatura" ELSE "report"
    /\ UNCHANGED <<num_articles, calls, lastCall, filtered_events, per_site_counts>>
    /\ UNCHANGED <<crawlVars, llmVars, textVars, pipeVars, rateVars, parseVars, dateVars, linkVars>>

\* all_events[idx:idx+n]
Slice(s, idx, n) ==
    SubSeq(s, idx + 1, IF idx + n < Len(s) THEN idx + n ELSE Len(s))

\* idx at the start of iteration i of the reporting loop: idx += n each time
RECURSIVE SliceStart(_)
SliceStart(i) == IF i = 1 THEN 0 ELSE SliceStart(i - 1) + num_articles[i - 1]

SiteEvents(i) == Slice(all_events, SliceStart(i), num_articles[i])

RECURSIVE ConcatSites(_, _)
ConcatSites(f, i) ==
    IF i = 0 THEN <<>> ELSE ConcatSites(f, i - 1) \o f[i]

\* lines 141-156: the final usability pass and the per-site summary
Report ==
    /\ pc = "report"
    /\ LET kept == [i \in 1..Len(num_articles) |-> SelectSeq(SiteEvents(i), IsUsable)]
       IN  /\ filtered_events' = ConcatSites(kept, Len(num_articles))
           /\ per_site_counts' =
                [i \in 1..Len(num_articles) |->
                    [url |-> i, total |-> Len(SiteEvents(i)), kept |-> Len(kept[i]),
                     cut |-> Len(SiteEvents(i)) - Len(kept[i])]]
    /\ pc' = "done"
    /\ UNCHANGED <<num_articles, src, usable_events, all_events, calls, lastCall, used, counts>>
    /\ UNCHANGED <<crawlVars, llmVars, textVars, pipeVars, rateVars, parseVars, dateVars, linkVars>>


(***************************************************************************)
(* One call of one backend (SpecCrawler).                                  *)
(***************************************************************************)
NotCalled == [called |-> FALSE, raised |-> FALSE, events |-> <<>>, visited |-> <<>>]

CrawlIdle ==
    /\ c_backend = NONE /\ c_home = NONE /\ c_cands = <<<<>>, <<>>>>
    /\ c_max = 0 /\ c_result = NotCalled

MainIdle ==
    /\ num_articles = <<>> /\ src = 0 /\ pc = "idle"
    /\ usable_events = <<>> /\ all_events = <<>> /\ calls = <<>>
    /\ lastCall = NoCall /\ used = ZeroCounts /\ counts = ZeroCounts
    /\ filtered_events = <<>> /\ per_site_counts = <<>>

CrawlerCall ==
    /\ c_result.called = FALSE
    /\ c_backend # NONE
    /\ LET res == extract_articles(c_backend, 1, c_home, c_cands, c_max)
       IN  c_result' = [called |-> TRUE, raised |-> res.raised,
                        events |-> res.events, visited |-> res.visited]
    /\ UNCHANGED <<c_backend, c_home, c_cands, c_max>>
    /\ UNCHANGED <<mainVars, llmVars, textVars, pipeVars, rateVars, parseVars, dateVars, linkVars>>


(***************************************************************************)
(* Records as Python dicts: functions from keys to values.                 *)
(***************************************************************************)
HasKey(d, k) == k \in DOMAIN d

Put(d, k, v) == [x \in DOMAIN d \cup {k} |-> IF x = k THEN v ELSE d[x]]

\* d.pop(k, None)
Pop(d, k) == [x \in DOMAIN d \ {k} |-> d[x]]

(***************************************************************************)
(* Python strings, as sequences of one-character strings, with the str     *)
(* methods the annotation pipeline uses.                                   *)
(***************************************************************************)
UpperLetters ==
    <<"A", "B", "C", "D", "E", "F", "G", "H", "I", "J", "K", "L", "M",
      "N", "O", "P", "Q", "R", "S", "T", "U", "V", "W", "X", "Y", "Z">>
LowerLetters ==
    <<"a", "b", "c", "d", "e", "f", "g", "h", "i", "j", "k", "l", "m",
      "n", "o", "p", "q", "r", "s", "t", "u", "v", "w", "x", "y", "z">>

\* the characters str.split() and str.strip() treat as whitespace
Whitespace == {" ", "\n", "\t", "\r"}

\* s.lower()
LowerChar(c) ==
    IF \E i \in DOMAIN UpperLetters : UpperLetters[i] = c
    THEN LowerLetters[CHOOSE i \in DOMAIN UpperLetters : UpperLetters[i] = c]
    ELSE c

str_lower(s) == [i \in DOMAIN s |-> LowerChar(s[i])]

\* s.strip()
RECURSIVE str_lstrip(_)
str_lstrip(s) ==
    IF Len(s) > 0 /\ Head(s) \in Whitespace THEN str_lstrip(Tail(s)) ELSE s

RECURSIVE str_rstrip(_)
str_rstrip(s) ==
    IF Len(s) > 0 /\ s[Len(s)] \in Whitespace
    THEN str_rstrip(SubSeq(s, 1, Len(s) - 1))
    ELSE s

str_strip(s) == str_rstrip(str_lstrip(s))

\* s.split(): the words between whitespace runs, never an empty word
RECURSIVE SplitWords(_, _, _)
SplitWords(s, word, words) ==
    IF Len(s) = 0
    THEN IF Len(word) = 0 THEN words ELSE Append(words, word)
    ELSE IF Head(s) \in Whitespace
         THEN SplitWords(Tail(s), <<>>,
                         IF Len(word) = 0 THEN words ELSE Append(words, word))
         ELSE SplitWords(Tail(s), Append(word, Head(s)), words)

str_split(s) == SplitWords(s, <<>>, <<>>)

\* s.split(sep) for a one-character sep: every fragment, the empty ones too
RECURSIVE SplitFragments(_, _, _, _)
SplitFragments(s, sep, fragment, fragments) ==
    IF Len(s) = 0
    THEN Append(fragments, fragment)
    ELSE IF Head(s) = sep
         THEN SplitFragments(Tail(s), sep, <<>>, Append(fragments, fragment))
         ELSE SplitFragments(Tail(s), sep, Append(fragment, Head(s)), fragments)

str_split_on(s, sep) == SplitFragments(s, sep, <<>>, <<>>)

\* sep.join(words)
RECURSIVE str_join(_, _)
str_join(sep, words) ==
    IF Len(words) = 0 THEN <<>>
    ELSE IF Len(words) = 1 THEN words[1]
    ELSE words[1] \o sep \o str_join(sep, Tail(words))

\* needle in haystack
str_in(needle, haystack) ==
    \E i \in 0..(Len(haystack) - Len(needle)) :
        SubSeq(haystack, i + 1, i + Len(needle)) = needle

(***************************************************************************)
(* calculate_content_hash.  The MD5 digest is kept as the text it digests: *)
(* two digests are equal exactly when the digested texts are.              *)
(***************************************************************************)
md5(text) == [md5 |-> text]

\* mutant of calculate_content_hash: only the ends are trimmed, internal
\* whitespace is left as it is
calculate_content_hash_uncollapsed(content) ==
    md5(str_strip(str_lower(content)))

calculate_content_hash(content) ==
    LET normalized == str_strip(str_lower(content))
    IN  md5(str_join(<<" ">>, str_split(normalized)))

\* every string of at most k characters of the alphabet
Texts(alphabet, k) == UNION {[1..n -> alphabet] : n \in 0..k}

\* one call of calculate_content_hash, on the next of the contents
Hash ==
    /\ Len(hashes) < Len(contents)
    /\ hashes' = Append(hashes, calculate_content_hash(contents[Len(hashes) + 1]))
    /\ UNCHANGED <<contents, q_articles, q_metrics>>
    /\ UNCHANGED <<mainVars, crawlVars, llmVars, pipeVars, rateVars, parseVars, dateVars, linkVars>>

(***************************************************************************)
(* Article content is kept by what assess_content_quality measures of it:  *)
(* len(content), the number of non-empty '.'-separated fragments and the   *)
(* number of vocabulary terms found.  The empty string measures 0, 0, 0.   *)
(***************************************************************************)
EmptyContent == [len |-> 0, sentences |-> 0, keywords |-> 0]

Contents ==
    {EmptyContent} \cup
    [len : {150, 250, 1000}, sentences : {0, 4, 6}, keywords : {0, 2, 5}]

\* A content short enough to be written out is kept as its text,
\* [text |-> the string]; the measures are then computed from the text.
IsText(content) == HasKey(content, "text")

TextContent(s) == [text |-> s]

\* len(content)
ContentLength(content) ==
    IF IsText(content) THEN Len(content.text) ELSE content.len

\* lines 161-162: the '.'-separated fragments that are not blank
SentenceCount(content) ==
    IF IsText(content)
    THEN LET fragments == str_split_on(content.text, ".")
         IN  Cardinality({i \in DOMAIN fragments : Len(str_strip(fragments[i])) > 0})
    ELSE content.sentences

\* lines 173-179
tech_keywords ==
    <<
      <<"s", "e", "m", "i", "c", "o", "n", "d", "u", "c", "t", "o", "r">>,   \* semiconductor
      <<"c", "h", "i", "p">>,   \* chip
      <<"m", "a", "n", "u", "f", "a", "c", "t", "u", "r", "i", "n", "g">>,   \* manufacturing
      <<"t", "e", "c", "h", "n", "o", "l", "o", "g", "y">>,   \* technology
      <<"i", "n", "n", "o", "v", "a", "t", "i", "o", "n">>,   \* innovation
      <<"p", "r", "o", "c", "e", "s", "s", "o", "r">>,   \* processor
      <<"s", "i", "l", "i", "c", "o", "n">>,   \* silicon
      <<"w", "a", "f", "e", "r">>,   \* wafer
      <<"f", "a", "b", "r", "i", "c", "a", "t", "i", "o", "n">>,   \* fabrication
      <<"e", "l", "e", "c", "t", "r", "o", "n", "i", "c", "s">>,   \* electronics
      <<"c", "i", "r", "c", "u", "i", "t">>,   \* circuit
      <<"t", "r", "a", "n", "s", "i", "s", "t", "o", "r">>,   \* transistor
      <<"i", "n", "t", "e", "g", "r", "a", "t", "e", "d">>,   \* integrated
      <<"m", "i", "c", "r", "o", "p", "r", "o", "c", "e", "s", "s", "o", "r">>,   \* microprocessor
      <<"A", "I">>,   \* AI
      <<"a", "r", "t", "i", "f", "i", "c", "i", "a", "l", " ", "i", "n", "t", "e", "l", "l", "i", "g", "e", "n", "c", "e">>,   \* artificial intelligence
      <<"m", "a", "c", "h", "i", "n", "e", " ", "l", "e", "a", "r", "n", "i", "n", "g">>,   \* machine learning
      <<"q", "u", "a", "n", "t", "u", "m">>,   \* quantum
      <<"n", "a", "n", "o", "t", "e", "c", "h", "n", "o", "l", "o", "g", "y">>,   \* nanotechnology
      <<"g", "a", "l", "l", "i", "u", "m">>,   \* gallium
      <<"a", "r", "s", "e", "n", "i", "d", "e">>,   \* arsenide
      <<"n", "i", "t", "r", "i", "d", "e">>,   \* nitride
      <<"T", "S", "M", "C">>,   \* TSMC
      <<"I", "n", "t", "e", "l">>,   \* Intel
      <<"A", "M", "D">>,   \* AMD
      <<"N", "V", "I", "D", "I", "A">>   \* NVIDIA
    >>

\* lines 181-182: the vocabulary terms found in the lowercased content
TechKeywordCount(content) ==
    IF IsText(content)
    THEN LET content_lower == str_lower(content.text)
         IN  Cardinality({k \in DOMAIN tech_keywords :
                            str_in(tech_keywords[k], content_lower)})
    ELSE content.keywords

\* article.get(key, '')
GetContent(a) == IF HasKey(a, "content") THEN a.content ELSE EmptyContent
GetText(a, k) == IF HasKey(a, k) THEN a[k] ELSE ""

Articles ==
    {[headline |-> "h", article_url |-> u, content |-> c] : u \in {"", "u"}, c \in Contents}
    \cup
    {[headline |-> "h", article_url |-> u, content |-> c, date |-> "01.02.2024"]
        : u \in {"", "u"}, c \in Contents}
    \cup
    {[headline |-> "h", article_url |-> "u", date |-> "01.02.2024"]}

(***************************************************************************)
(* assess_content_quality                                                  *)
(***************************************************************************)
\* mutant of LengthPoints: the band limits compared with > instead of >=
LengthPointsStrict(content_length) ==
    CASE content_length > 1000 -> 3
      [] content_length > 500  -> 2
      [] content_length > 200  -> 1
      [] OTHER                 -> 0

LengthPoints(content_length) ==
    CASE content_length >= 1000 -> 3
      [] content_length >= 500  -> 2
      [] content_length >= 200  -> 1
      [] OTHER                  -> 0

LengthFactor(content_length) ==
    CASE content_length >= 1000 -> "excellent_length"
      [] content_length >= 500  -> "good_length"
      [] content_length >= 200  -> "adequate_length"
      [] OTHER                  -> "insufficient_length"

SentencePoints(sentence_count) ==
    CASE sentence_count > 5  -> 2
      [] sentence_count >= 3 -> 1
      [] OTHER               -> 0

SentenceFactor(sentence_count) ==
    CASE sentence_count > 5  -> "excellent_structure"
      [] sentence_count >= 3 -> "good_structure"
      [] OTHER               -> "poor_structure"

KeywordPoints(tech_keyword_count) ==
    CASE tech_keyword_count > 4  -> 3
      [] tech_keyword_count >= 3 -> 2
      [] tech_keyword_count >= 1 -> 1
      [] OTHER                   -> 0

KeywordFactor(tech_keyword_count) ==
    CASE tech_keyword_count > 4  -> "highly_technical"
      [] tech_keyword_count >= 3 -> "technical_content"
      [] tech_keyword_count >= 1 -> "some_technical"
      [] OTHER                   -> "non_technical"

\* mutant of assess_content_quality: a headline counts as a third piece of
\* metadata
assess_content_quality_with_headline(a) ==
    LET content  == GetContent(a)
        has_date == GetText(a, "date") \notin {NONE, ""}
        has_url  == GetText(a, "article_url") \notin {NONE, ""}
        has_headline == GetText(a, "headline") \notin {NONE, ""}
        content_length     == ContentLength(content)
        sentence_count     == SentenceCount(content)
        tech_keyword_count == TechKeywordCount(content)
    IN  [content_length     |-> content_length,
         sentence_count     |-> sentence_count,
         tech_keyword_count |-> tech_keyword_count,
         has_date           |-> has_date,
         has_url            |-> has_url,
         quality_score      |-> LengthPoints(content_length) + SentencePoints(sentence_count)
                                + KeywordPoints(tech_keyword_count)
                                + (IF has_date THEN 1 ELSE 0) + (IF has_url THEN 1 ELSE 0)
                                + (IF has_headline THEN 1 ELSE 0),
         quality_factors    |-> <<LengthFactor(content_length), SentenceFactor(sentence_count),
                                  KeywordFactor(tech_keyword_count)>>
                                \o (IF has_date THEN <<"has_date">> ELSE <<>>)
                                \o (IF has_url THEN <<"has_url">> ELSE <<>>)]

assess_content_quality(a) ==
    LET content  == GetContent(a)
        has_date == GetText(a, "date") \notin {NONE, ""}
        has_url  == GetText(a, "article_url") \notin {NONE, ""}
        content_length     == ContentLength(content)
        sentence_count     == SentenceCount(content)
        tech_keyword_count == TechKeywordCount(content)
    IN  [content_length     |-> content_length,
         sentence_count     |-> sentence_count,
         tech_keyword_count |-> tech_keyword_count,
         has_date           |-> has_date,
         has_url            |-> has_url,
         quality_score      |-> LengthPoints(content_length) + SentencePoints(sentence_count)
                                + KeywordPoints(tech_keyword_count)
                                + (IF has_date THEN 1 ELSE 0) + (IF has_url THEN 1 ELSE 0),
         quality_factors    |-> <<LengthFactor(content_length), SentenceFactor(sentence_count),
                                  KeywordFactor(tech_keyword_count)>>
                                \o (IF has_date THEN <<"has_date">> ELSE <<>>)
                                \o (IF has_url THEN <<"has_url">> ELSE <<>>)]

\* one call of assess_content_quality, on the next of the records
Assess ==
    /\ Len(q_metrics) < Len(q_articles)
    /\ q_metrics' = Append(q_metrics, assess_content_quality(q_articles[Len(q_metrics) + 1]))
    /\ UNCHANGED <<contents, hashes, q_articles>>
    /\ UNCHANGED <<mainVars, crawlVars, llmVars, pipeVars, rateVars, parseVars, dateVars, linkVars>>

(***************************************************************************)
(* What one session.post of call_llm can meet.                             *)
(*   transport       : RequestException, ConnectionError or OSError        *)
(*                     (refused, timeout, DNS, raise_for_status)           *)
(*   empty           : delivered, response.text.strip() is empty           *)
(*   notjson         : delivered, response.json() raises JSONDecodeError   *)
(*   broken          : delivered JSON whose envelope makes the parsing     *)
(*                     code raise (choices[0] without message, content     *)
(*                     null, a JSON value that is no object)               *)
(*   other           : a JSON object with neither choices nor both of      *)
(*                     sentiment and summary                               *)
(*   chat_nojson     : chat envelope, no {...} span in the message         *)
(*   chat_unparsable : chat envelope, the {...} span is not JSON           *)
(*   chat            : chat envelope, the {...} span parses to an object   *)
(*   flat            : a flat object holding sentiment and summary keys    *)
(* Values of the answer object: the sentiments are 利好, 中立, 利弊 (here   *)
(* "lihao", "zhongli", "libi"), relevant is 是 or 否 ("shi", "fou").        *)
(* A summary is absent/null, "", blank, the text "None", a number, or a    *)
(* proper text.                                                            *)
(***************************************************************************)
Sentiments == {"lihao", "zhongli", "libi"}
Relevants  == {"shi", "fou"}

BLANK     == "  "
NONSTRING == "<int>"

SentimentValues == Sentiments \cup {"other", NONE}
SummaryValues   == {NONE, "", BLANK, "None", NONSTRING, "summary"}
RelevantValues  == Relevants \cup {"other", NONE}

NoAnswer == [sentiment |-> NONE, summary |-> NONE, relevant |-> NONE]

Answers == [sentiment : SentimentValues, summary : SummaryValues, relevant : RelevantValues]

Responses ==
    {[kind |-> k, answer |-> NoAnswer] :
        k \in {"transport", "empty", "notjson", "broken", "other",
               "chat_nojson", "chat_unparsable"}}
    \cup [kind : {"chat", "flat"}, answer : Answers]

NoResponse == [kind |-> NONE, answer |-> NoAnswer]

DEFAULT_ENDPOINT == "http://10.30.15.111:8080/api/chat/completions"

\* endpoint arguments that are no URL: session.post raises MissingSchema, a
\* RequestException, before any connection is opened
MockEndpoints == {"mock", "MOCK"}

\* what a session.post to the endpoint can meet
ResponsesAt(url) ==
    IF url \in MockEndpoints
    THEN {[kind |-> "transport", answer |-> NoAnswer]}
    ELSE Responses

\* Python truthiness, str.strip() and str.lower() on the summary values
Truthy(v)   == v \notin {NONE, ""}
IsString(v) == v \notin {NONE, NONSTRING}
Strip(v)    == IF v = BLANK THEN "" ELSE v
Lower(v)    == IF v = "None" THEN "none" ELSE v

\* call_llm's return value: None, or the parsed answer dict
ResultNone == [none |-> TRUE, sentiment |-> NONE, summary |-> NONE, relevant |-> NONE]
ResultOf(answer) ==
    [none |-> FALSE, sentiment |-> answer.sentiment, summary |-> answer.summary,
     relevant |-> answer.relevant]

\* lines 331-350: result, or None
ParsedResult(resp) ==
    IF resp.kind \in {"chat", "flat"} THEN ResultOf(resp.answer) ELSE ResultNone

\* line 353
KeysValid(r) ==
    /\ ~r.none
    /\ r.sentiment \in Sentiments
    /\ Truthy(r.summary)
    /\ r.relevant \in Relevants

\* mutant of SummaryValid: the summary is not trimmed before the test
SummaryValidUntrimmed(r) ==
    /\ Truthy(r.summary)
    /\ Lower(r.summary) # "none"

\* line 354
SummaryValid(r) ==
    /\ Truthy(r.summary)
    /\ Strip(r.summary) # ""
    /\ Lower(Strip(r.summary)) # "none"

(***************************************************************************)
(* One iteration of call_llm's for loop (lines 313-366): what the code     *)
(* does with the response of this attempt.                                 *)
(*   return : the function returns `result`                                *)
(*   break  : except Exception: break, then return None                    *)
(*   next   : the loop goes on to the next attempt (sleep: with a backoff)  *)
(***************************************************************************)
Outcome(how, res, sleep) == [how |-> how, result |-> res, sleep |-> sleep]

\* mutant of Attempt: an empty body is treated like an invalid answer
AttemptEmptyFallsThrough(resp, att, retries) ==
    CASE resp.kind = "transport" -> Outcome("next", ResultNone, att < retries - 1)
      [] resp.kind = "empty"     -> Outcome("next", ResultNone, FALSE)
      [] resp.kind = "notjson"   -> Outcome("return", ResultNone, FALSE)
      [] resp.kind = "broken"    -> Outcome("break", ResultNone, FALSE)
      [] OTHER ->
            LET r == ParsedResult(resp)
            IN  IF KeysValid(r)
                THEN IF ~IsString(r.summary)
                     THEN Outcome("break", ResultNone, FALSE)
                     ELSE IF SummaryValid(r)
                          THEN Outcome("return", r, FALSE)
                          ELSE Outcome("next", ResultNone, FALSE)
                ELSE Outcome("next", ResultNone, FALSE)

Attempt(resp, att, retries) ==
    CASE resp.kind = "transport" -> Outcome("next", ResultNone, att < retries - 1)
      [] resp.kind = "empty"     -> Outcome("return", ResultNone, FALSE)
      [] resp.kind = "notjson"   -> Outcome("return", ResultNone, FALSE)
      [] resp.kind = "broken"    -> Outcome("break", ResultNone, FALSE)
      [] OTHER ->
            LET r == ParsedResult(resp)
            IN  IF KeysValid(r)
                THEN IF ~IsString(r.summary)
                     THEN Outcome("break", ResultNone, FALSE)   \* .strip() raises
                     ELSE IF SummaryValid(r)
                          THEN Outcome("return", r, FALSE)
                          ELSE Outcome("next", ResultNone, FALSE)
                ELSE Outcome("next", ResultNone, FALSE)

\* a delivered response that is structurally invalid
Delivered(resp) == resp.kind \notin {NONE, "transport"}
Malformed(resp) ==
    /\ Delivered(resp)
    /\ ~(KeysValid(ParsedResult(resp)) /\ IsString(resp.answer.summary)
         /\ SummaryValid(ParsedResult(resp)))

(***************************************************************************)
(* call_llm: one action per session.post.                                  *)
(***************************************************************************)
Request ==
    /\ lpc = "request"
    /\ \E resp \in ResponsesAt(endpoint) :
        LET out == Attempt(resp, attempt, max_retries)
        IN  /\ requests' = requests + 1
            /\ lastResponse' = resp
            /\ sleeps' = IF out.sleep THEN Append(sleeps, attempt) ELSE sleeps
            /\ IF out.how = "next" /\ attempt + 1 < max_retries
               THEN /\ attempt' = attempt + 1
                    /\ lpc' = "request"
                    /\ result' = result
               ELSE /\ attempt' = attempt
                    /\ lpc' = "returned"
                    /\ result' = out.result
    /\ UNCHANGED <<caller, endpoint, article, max_retries, processed>>
    /\ UNCHANGED <<mainVars, crawlVars, textVars, pipeVars, rateVars, parseVars, dateVars, linkVars>>

\* a caller other than process_single_article, with its own max_retries
DirectCall ==
    /\ lpc = "start"
    /\ caller = "direct"
    /\ lpc' = "request"
    /\ attempt' = 0
    /\ UNCHANGED <<caller, endpoint, article, max_retries, requests, lastResponse, sleeps,
                   result, processed>>
    /\ UNCHANGED <<mainVars, crawlVars, textVars, pipeVars, rateVars, parseVars, dateVars, linkVars>>

(***************************************************************************)
(* process_single_article                                                  *)
(***************************************************************************)
\* lines 381-389
Scored(a) ==
    LET q == assess_content_quality(a)
    IN  Put(Put(Put(Put(Put(a, "quality_score", q.quality_score),
                        "quality_factors", q.quality_factors),
                    "content_length", q.content_length),
                "sentence_count", q.sentence_count),
            "tech_keyword_count", q.tech_keyword_count)

Annotated(d, sentiment, summary, relevant, status) ==
    Put(Put(Put(Put(d, "sentiment", sentiment), "summary", summary),
            "relevant", relevant), "processing_status", status)

\* lines 392-409
NoContentRecord(a) ==
    Annotated(Scored(a), "zhongli", "no_content_to_analyse", "fou", "no_content")

LowQualityRecord(a) ==
    Pop(Annotated(Scored(a), "zhongli", "quality_too_low_skipped", "fou", "low_quality"),
        "content")

\* mutant of FinishedRecord: the failure branch returns before the content
\* is removed, as the no_content branch does
FinishedRecordKeepingContent(a, r) ==
    IF ~r.none
    THEN Pop(Annotated(Scored(a), r.sentiment, r.summary, r.relevant, "success"), "content")
    ELSE Annotated(Scored(a), "zhongli", "LLM_failed", "fou", "failed")

\* lines 414-428
FinishedRecord(a, r) ==
    Pop(IF ~r.none
        THEN Annotated(Scored(a), r.sentiment, r.summary, r.relevant, "success")
        ELSE Annotated(Scored(a), "zhongli", "LLM_failed", "fou", "failed"),
        "content")

\* mutant of Gate: the quality threshold is not applied
GateWithoutThreshold(a) ==
    IF ContentLength(GetContent(a)) = 0 THEN "no_content" ELSE "call_llm"

\* which way process_single_article takes before any LLM call
Gate(a) ==
    CASE ContentLength(GetContent(a)) = 0 -> "no_content"
      [] assess_content_quality(a).quality_score < QualityThreshold -> "low_quality"
      [] OTHER -> "call_llm"

NotProcessed == [processing_status |-> NONE]

ProcessBegin ==
    /\ lpc = "start"
    /\ caller = "process_single_article"
    /\ CASE Gate(article) = "no_content" ->
              /\ processed' = NoContentRecord(article)
              /\ lpc' = "done"
              /\ UNCHANGED <<max_retries, attempt>>
         [] Gate(article) = "low_quality" ->
              /\ processed' = LowQualityRecord(article)
              /\ lpc' = "done"
              /\ UNCHANGED <<max_retries, attempt>>
         [] OTHER ->
              /\ max_retries' = DefaultMaxRetries
              /\ attempt' = 0
              /\ lpc' = "request"
              /\ UNCHANGED processed
    /\ UNCHANGED <<caller, endpoint, article, requests, lastResponse, sleeps, result>>
    /\ UNCHANGED <<mainVars, crawlVars, textVars, pipeVars, rateVars, parseVars, dateVars, linkVars>>

ProcessFinish ==
    /\ lpc = "returned"
    /\ caller = "process_single_article"
    /\ processed' = FinishedRecord(article, result)
    /\ lpc' = "done"
    /\ UNCHANGED <<caller, endpoint, article, max_retries, attempt, requests, lastResponse,
                   sleeps, result>>
    /\ UNCHANGED <<mainVars, crawlVars, textVars, pipeVars, rateVars, parseVars, dateVars, linkVars>>

(***************************************************************************)
(* process_articles.py: call_llm with endpoint 'mock' (lines 82-85),       *)
(* call_llm_mock and process_single_article.  Its sentiments are positive, *)
(* neutral and negative.                                                   *)
(***************************************************************************)
positive_words ==
    <<
      <<"g", "r", "o", "w", "t", "h">>,   \* growth
      <<"i", "n", "c", "r", "e", "a", "s", "e">>,   \* increase
      <<"s", "u", "c", "c", "e", "s", "s">>,   \* success
      <<"b", "r", "e", "a", "k", "t", "h", "r", "o", "u", "g", "h">>,   \* breakthrough
      <<"i", "n", "n", "o", "v", "a", "t", "i", "o", "n">>,   \* innovation
      <<"p", "a", "r", "t", "n", "e", "r", "s", "h", "i", "p">>,   \* partnership
      <<"i", "n", "v", "e", "s", "t", "m", "e", "n", "t">>,   \* investment
      <<"e", "x", "p", "a", "n", "s", "i", "o", "n">>,   \* expansion
      <<"r", "e", "v", "e", "n", "u", "e">>,   \* revenue
      <<"p", "r", "o", "f", "i", "t">>   \* profit
    >>

negative_words ==
    <<
      <<"d", "e", "c", "l", "i", "n", "e">>,   \* decline
      <<"l", "o", "s", "s">>,   \* loss
      <<"f", "a", "i", "l", "u", "r", "e">>,   \* failure
      <<"c", "r", "i", "s", "i", "s">>,   \* crisis
      <<"p", "r", "o", "b", "l", "e", "m">>,   \* problem
      <<"c", "o", "n", "c", "e", "r", "n">>,   \* concern
      <<"d", "e", "c", "r", "e", "a", "s", "e">>,   \* decrease
      <<"f", "a", "l", "l">>,   \* fall
      <<"i", "s", "s", "u", "e">>,   \* issue
      <<"c", "h", "a", "l", "l", "e", "n", "g", "e">>   \* challenge
    >>

MockDefaultSummary == <<"B", "r", "i", "e", "f", " ", "s", "u", "m", "m", "a", "r", "y", " ", "o", "f", " ", "s", "e", "m", "i", "c", "o", "n", "d", "u", "c", "t", "o", "r", " ", "i", "n", "d", "u", "s", "t", "r", "y", " ", "n", "e", "w", "s", ".">>

WordsFound(words, text_lower) ==
    Cardinality({k \in DOMAIN words : str_in(words[k], text_lower)})

\* lines 175-216
call_llm_mock(text) ==
    LET text_lower     == str_lower(text)
        positive_count == WordsFound(positive_words, text_lower)
        negative_count == WordsFound(negative_words, text_lower)
        sentences      == Take(str_split_on(text, "."), 3)
        joined         == str_strip(str_join(<<".", " ">>, sentences))
        summary        == IF Len(joined) > 80
                          THEN SubSeq(joined, 1, 77) \o <<".", ".", ".">>
                          ELSE joined
    IN  [sentiment |-> CASE positive_count > negative_count -> "positive"
                         [] negative_count > positive_count -> "negative"
                         [] OTHER                           -> "neutral",
         summary   |-> IF Len(summary) > 0 THEN summary ELSE MockDefaultSummary]

\* process_articles.py lines 236-264, the endpoint being 'mock'
MockProcessed(a) ==
    IF ContentLength(GetContent(a)) = 0
    THEN Put(Put(Put(a, "sentiment", "neutral"), "summary", "No content available for analysis"),
             "processing_status", "no_content")
    ELSE LET r == call_llm_mock(GetContent(a).text)
         IN  Pop(Put(Put(Put(a, "sentiment", r.sentiment), "summary", r.summary),
                     "processing_status", "success"), "content")

\* process_single_article of process_articles.py; line 83 sends the call to
\* call_llm_mock when the endpoint is 'mock' in any letter case
ProcessMock ==
    /\ lpc = "start"
    /\ caller = "process_articles.process_single_article"
    /\ endpoint \in MockEndpoints
    /\ processed' = MockProcessed(article)
    /\ lpc' = "done"
    /\ UNCHANGED <<caller, endpoint, article, max_retries, attempt, requests, lastResponse,
                   sleeps, result>>
    /\ UNCHANGED <<mainVars, crawlVars, textVars, pipeVars, rateVars, parseVars, dateVars, linkVars>>

\* call_llm as a function of what its successive requests meet
RECURSIVE call_llm(_, _, _)
call_llm(resps, att, retries) ==
    IF att >= retries THEN ResultNone
    ELSE LET out == Attempt(resps[att + 1], att, retries)
         IN  IF out.how = "next" THEN call_llm(resps, att + 1, retries) ELSE out.result

\* everything call_llm can return to process_single_article
LlmResults ==
    {call_llm(resps, 0, DefaultMaxRetries) : resps \in [1..DefaultMaxRetries -> Responses]}

\* process_single_article, given what its call_llm returns if it is made
process_single_article(a, r) ==
    CASE Gate(a) = "no_content"  -> NoContentRecord(a)
      [] Gate(a) = "low_quality" -> LowQualityRecord(a)
      [] OTHER                   -> FinishedRecord(a, r)

(***************************************************************************)
(* deduplicate_articles.  The loop writes content_hash into the dict it    *)
(* keeps, which is the caller's dict: `articles` sees the new key too.     *)
(***************************************************************************)
DedupState(input, seen, unique, dups) ==
    [articles |-> input, seen_hashes |-> seen, unique_articles |-> unique,
     duplicate_count |-> dups]

\* mutant of DedupLoop: the last record of each hash is kept
RECURSIVE DedupLoopKeepingLast(_, _, _, _, _)
DedupLoopKeepingLast(input, i, seen, unique, dups) ==
    IF i > Len(input) THEN DedupState(input, seen, unique, dups)
    ELSE LET a       == input[i]
             content == GetContent(a)
         IN  IF ContentLength(content) = 0
             THEN DedupLoopKeepingLast(input, i + 1, seen, unique, dups)
             ELSE LET content_hash == calculate_content_hash(content.text)
                      kept == Put(a, "content_hash", content_hash)
                  IN  IF content_hash \notin seen
                      THEN DedupLoopKeepingLast([input EXCEPT ![i] = kept], i + 1,
                                         seen \cup {content_hash}, Append(unique, kept), dups)
                      ELSE DedupLoopKeepingLast([input EXCEPT ![i] = kept], i + 1, seen,
                               Append(SelectSeq(unique, LAMBDA u : u.content_hash # content_hash),
                                      kept), dups + 1)

\* lines 230-244
RECURSIVE DedupLoop(_, _, _, _, _)
DedupLoop(input, i, seen, unique, dups) ==
    IF i > Len(input) THEN DedupState(input, seen, unique, dups)
    ELSE LET a       == input[i]
             content == GetContent(a)
         IN  IF ContentLength(content) = 0
             THEN DedupLoop(input, i + 1, seen, unique, dups)
             ELSE LET content_hash == calculate_content_hash(content.text)
                  IN  IF content_hash \notin seen
                      THEN LET kept == Put(a, "content_hash", content_hash)
                           IN  DedupLoop([input EXCEPT ![i] = kept], i + 1,
                                         seen \cup {content_hash}, Append(unique, kept), dups)
                      ELSE DedupLoop(input, i + 1, seen, unique, dups + 1)

deduplicate_articles(input) == DedupLoop(input, 1, {}, <<>>, 0)

(***************************************************************************)
(* process_articles (lines 477-527).  A record that got through            *)
(* deduplicate_articles has a non-empty string as content, so              *)
(* process_single_article cannot raise on it and the except branch of      *)
(* process_articles_sequentially (lines 461-470) is taken only when the    *)
(* function is called on a list of its own.                                *)
(***************************************************************************)
\* what can be at input_path besides a JSON list of records
MISSING == [kind |-> "missing", data |-> <<>>]
INVALID == [kind |-> "invalid", data |-> <<>>]
JsonFile(list) == [kind |-> "json", data |-> list]
NoPath  == [kind |-> NONE, data |-> <<>>]

\* the output path: nothing written to it, or the list dumped to it
NotWritten == [written |-> FALSE, data |-> <<>>]
Written(list) == [written |-> TRUE, data |-> list]

Modules == {"process_articles_improved", "process_articles_sequential"}

LoadRaised(error) == [raised |-> error, articles |-> <<>>]
LoadReturned(list) == [raised |-> NONE, articles |-> list]

\* mutant of load_articles: both modules log the error and return []
load_articles_returning_empty(module, file) ==
    IF file \in {MISSING, INVALID} THEN LoadReturned(<<>>) ELSE LoadReturned(file.data)

\* process_articles_improved.py lines 250-262 log and re-raise;
\* process_articles_sequential.py lines 69-79 log and return []
load_articles(module, file) ==
    CASE file \notin {MISSING, INVALID} -> LoadReturned(file.data)
      [] module = "process_articles_sequential" -> LoadReturned(<<>>)
      [] file = MISSING -> LoadRaised("FileNotFoundError")
      [] OTHER          -> LoadRaised("JSONDecodeError")

\* line 486 (line 394 of process_articles_sequential.py): an exception of
\* load_articles leaves process_articles
Load ==
    /\ ppc = "start"
    /\ LET loaded == load_articles(p_module, input_file)
       IN  /\ articles' = loaded.articles
           /\ ppc' = IF loaded.raised # NONE THEN loaded.raised ELSE "loaded"
    /\ UNCHANGED <<seen_hashes, unique_articles, duplicate_count, processed_articles,
                   p_module, input_file, output_file>>
    /\ UNCHANGED <<mainVars, crawlVars, llmVars, textVars, rateVars, parseVars, dateVars, linkVars>>

\* lines 488-490
NoArticles ==
    /\ ppc = "loaded"
    /\ Len(articles) = 0
    /\ ppc' = "done"
    /\ UNCHANGED <<articles, seen_hashes, unique_articles, duplicate_count,
                   processed_articles, p_module, input_file, output_file>>
    /\ UNCHANGED <<mainVars, crawlVars, llmVars, textVars, rateVars, parseVars, dateVars, linkVars>>

\* line 495
Deduplicate ==
    /\ ppc = "loaded"
    /\ Len(articles) > 0
    /\ LET d == deduplicate_articles(articles)
       IN  /\ articles' = d.articles
           /\ seen_hashes' = d.seen_hashes
           /\ unique_articles' = d.unique_articles
           /\ duplicate_count' = d.duplicate_count
           /\ ppc' = IF Len(d.unique_articles) = 0 THEN "save" ELSE "process"
    /\ UNCHANGED <<processed_articles, p_module, input_file, output_file>>
    /\ UNCHANGED <<mainVars, crawlVars, llmVars, textVars, rateVars, parseVars, dateVars, linkVars>>

\* a content that is JSON null
NullContent == [null |-> TRUE]

\* line 444, before the try: article.get('headline', 'Unknown')[:50] is a
\* TypeError when the headline is null
LogLineRaises(a) == HasKey(a, "headline") /\ a.headline = NONE

\* process_single_article raises: assess_content_quality takes len(content)
\* (line 147), a TypeError when the content is null
ProcessingRaises(a) == GetContent(a) = NullContent

\* lines 461-470
ErrorRecord(a) ==
    Pop(Annotated(a, "zhongli", "processing_error", "fou", "error"), "content")

\* one iteration of the loop of process_articles_sequentially (443-472);
\* ppc = "save" says that the function has returned
ProcessArticle ==
    /\ ppc = "process"
    /\ LET i == Len(processed_articles) + 1
           a == unique_articles[i]
       IN  IF LogLineRaises(a)
           THEN /\ ppc' = "TypeError"
                /\ UNCHANGED processed_articles
           ELSE /\ IF ProcessingRaises(a)
                   THEN processed_articles' = Append(processed_articles, ErrorRecord(a))
                   ELSE \E r \in (IF Gate(a) = "call_llm" THEN LlmResults ELSE {ResultNone}) :
                            processed_articles' =
                                Append(processed_articles, process_single_article(a, r))
                /\ ppc' = IF i = Len(unique_articles) THEN "save" ELSE "process"
    /\ UNCHANGED <<articles, seen_hashes, unique_articles, duplicate_count,
                   p_module, input_file, output_file>>
    /\ UNCHANGED <<mainVars, crawlVars, llmVars, textVars, rateVars, parseVars, dateVars, linkVars>>

\* lines 502-527: processed_articles is written to the output file
Save ==
    /\ ppc = "save"
    /\ output_file' = Written(processed_articles)
    /\ ppc' = "done"
    /\ UNCHANGED <<articles, seen_hashes, unique_articles, duplicate_count,
                   processed_articles, p_module, input_file>>
    /\ UNCHANGED <<mainVars, crawlVars, llmVars, textVars, rateVars, parseVars, dateVars, linkVars>>

(***************************************************************************)
(* RateLimiter (lines 76-96) around call_llm.  The clock counts ticks of   *)
(* 1/TicksPerSecond s and never goes back; time passes between any two     *)
(* steps.  time.sleep(d) returns once at least d has passed.  The module   *)
(* starts no thread, so one invocation runs at a time.                     *)
(***************************************************************************)
TicksPerSecond   == 4
calls_per_second == 2

\* 1.0 / self.calls_per_second, in ticks
MinInterval == TicksPerSecond \div calls_per_second

\* mutant of left_to_wait: the interval is one tick short
left_to_wait_short(time_now, last) == (MinInterval - 1) - (time_now - last)

\* lines 85-86
left_to_wait(time_now, last) ==
    LET elapsed == time_now - last
    IN  MinInterval - elapsed

Tick ==
    /\ rpc # "off"
    /\ now < MaxTime
    /\ now' = now + 1
    /\ UNCHANGED <<last_called, rpc, wake_at, started, cur_start, cur_first, prev_return>>
    /\ UNCHANGED <<mainVars, crawlVars, llmVars, textVars, pipeVars, parseVars, dateVars, linkVars>>

\* lines 85-88: the wrapper is entered and decides whether to sleep
WrapperEnter ==
    /\ rpc = "idle"
    /\ started < MaxCalls
    /\ IF left_to_wait(now, last_called) > 0
       THEN rpc' = "sleeping" /\ wake_at' = now + left_to_wait(now, last_called)
       ELSE rpc' = "ready" /\ UNCHANGED wake_at
    /\ UNCHANGED <<now, last_called, started, cur_start, cur_first, prev_return>>
    /\ UNCHANGED <<mainVars, crawlVars, llmVars, textVars, pipeVars, parseVars, dateVars, linkVars>>

\* line 88: time.sleep returns
Wake ==
    /\ rpc = "sleeping"
    /\ now >= wake_at
    /\ rpc' = "ready"
    /\ UNCHANGED <<now, last_called, wake_at, started, cur_start, cur_first, prev_return>>
    /\ UNCHANGED <<mainVars, crawlVars, llmVars, textVars, pipeVars, parseVars, dateVars, linkVars>>

\* line 89: call_llm is entered
FuncEnter ==
    /\ rpc = "ready"
    /\ rpc' = "calling"
    /\ started' = started + 1
    /\ cur_start' = now
    /\ UNCHANGED <<now, last_called, wake_at, cur_first, prev_return>>
    /\ UNCHANGED <<mainVars, crawlVars, llmVars, textVars, pipeVars, parseVars, dateVars, linkVars>>

\* call_llm line 312: the first session.post of the invocation
FirstRequest ==
    /\ rpc = "calling"
    /\ cur_first = -1
    /\ cur_first' = now
    /\ UNCHANGED <<now, last_called, rpc, wake_at, started, cur_start, prev_return>>
    /\ UNCHANGED <<mainVars, crawlVars, llmVars, textVars, pipeVars, parseVars, dateVars, linkVars>>

\* line 89: call_llm returns (it catches every Exception, lines 358-366)
FuncReturn ==
    /\ rpc = "calling"
    /\ rpc' = "returned"
    /\ prev_return' = now
    /\ cur_start' = -1 /\ cur_first' = -1
    /\ UNCHANGED <<now, last_called, wake_at, started>>
    /\ UNCHANGED <<mainVars, crawlVars, llmVars, textVars, pipeVars, parseVars, dateVars, linkVars>>

\* lines 90-91: self.last_called = time.time(); return ret
Stamp ==
    /\ rpc = "returned"
    /\ last_called' = now
    /\ rpc' = "idle"
    /\ UNCHANGED <<now, wake_at, started, cur_start, cur_first, prev_return>>
    /\ UNCHANGED <<mainVars, crawlVars, llmVars, textVars, pipeVars, parseVars, dateVars, linkVars>>

(***************************************************************************)
(* call_llm lines 331-343 on the assistant message of an envelope.  The    *)
(* message is a string of tokens: the braces, "a" for the members of a     *)
(* valid answer ("sentiment": ..., "summary": ..., "relevant": ...) and    *)
(* "t" for a character of any other text.                                  *)
(***************************************************************************)
MessageTokens == {"{", "}", "a", "t"}

Positions(s, token) == {i \in 1..Len(s) : s[i] = token}

Min(S) == CHOOSE x \in S : \A y \in S : x <= y
Max(S) == CHOOSE x \in S : \A y \in S : x >= y

\* re.search(r"\{.*\}", content, re.DOTALL).group(0): with DOTALL the greedy
\* .* runs from the first "{" to the last "}" of the message; <<>> stands
\* for no match
re_search_braces(s) ==
    IF Positions(s, "{") = {} THEN <<>>
    ELSE LET first == Min(Positions(s, "{"))
             after == {j \in Positions(s, "}") : j > first}
         IN  IF after = {} THEN <<>> ELSE SubSeq(s, first, Max(after))

NotJson    == [ok |-> FALSE, value |-> NONE]
JsonValue(v) == [ok |-> TRUE, value |-> v]

\* json.loads on a span that starts with "{" and ends with "}": the answer
\* object, the empty object, or JSONDecodeError
json_loads(span) ==
    CASE span = <<"{", "a", "}">> -> JsonValue("answer")
      [] span = <<"{", "}">>      -> JsonValue("empty")
      [] OTHER                    -> NotJson

\* lines 335-343: result
EnvelopeResult(s) ==
    LET json_match == re_search_braces(s)
    IN  IF json_match # <<>>
        THEN IF json_loads(json_match).ok THEN json_loads(json_match).value ELSE NONE
        ELSE NONE

\* the response kinds of the annotation client that the message falls under
ContentKind(s) ==
    CASE re_search_braces(s) = <<>>         -> "chat_nojson"
      [] ~json_loads(re_search_braces(s)).ok -> "chat_unparsable"
      [] OTHER                               -> "chat"

ParseEnvelope ==
    /\ parse_result = "unparsed"
    /\ json_payload' = re_search_braces(msg_content)
    /\ parse_result' = EnvelopeResult(msg_content)
    /\ UNCHANGED msg_content
    /\ UNCHANGED <<mainVars, crawlVars, llmVars, textVars, pipeVars, rateVars, dateVars, linkVars>>

ParseIdle ==
    /\ msg_content = <<>> /\ json_payload = <<>> /\ parse_result = "idle"

(***************************************************************************)
(* The date of an event of the two rendered-page classes: main() invokes   *)
(* PlaywrightCrawler (crawlers/playwright_crawler.py) and only imports     *)
(* PlaywrightNewsScraper (playwright_scraper.py).  Dates are strings of    *)
(* characters.                                                             *)
(***************************************************************************)
DigitChars == {"0", "1", "2", "3", "4", "5", "6", "7", "8", "9"}

IsDigits(s, from, to) == \A i \in from..to : s[i] \in DigitChars

\* re.match(r'^(\d{2})\.(\d{2})\.(\d{4})$', date_raw)
MatchFullDate(s) ==
    /\ Len(s) = 10 /\ s[3] = "." /\ s[6] = "."
    /\ IsDigits(s, 1, 2) /\ IsDigits(s, 4, 5) /\ IsDigits(s, 7, 10)

\* re.match(r'^(\d{2})\.(\d{2})\.(\d{2})$', date_raw)
MatchShortYear(s) ==
    /\ Len(s) = 8 /\ s[3] = "." /\ s[6] = "."
    /\ IsDigits(s, 1, 2) /\ IsDigits(s, 4, 5) /\ IsDigits(s, 7, 8)

\* re.match(r'^(\d{4})-(\d{2})-(\d{2})$', date_raw)
MatchIso(s) ==
    /\ Len(s) = 10 /\ s[5] = "-" /\ s[8] = "-"
    /\ IsDigits(s, 1, 4) /\ IsDigits(s, 6, 7) /\ IsDigits(s, 9, 10)

\* playwright_scraper.py lines 82-104
ScraperDate(raw) ==
    IF raw = <<>> THEN <<>>
    ELSE IF MatchFullDate(raw) THEN raw
    ELSE IF MatchShortYear(raw)
         THEN LET mm == SubSeq(raw, 1, 2)
                  dd == SubSeq(raw, 4, 5)
                  yy == SubSeq(raw, 7, 8)
              IN  mm \o <<".">> \o dd \o <<".", "2", "0">> \o yy
    ELSE IF MatchIso(raw)
         THEN LET yyyy == SubSeq(raw, 1, 4)
                  mm   == SubSeq(raw, 6, 7)
                  dd   == SubSeq(raw, 9, 10)
              IN  mm \o <<".">> \o dd \o <<".">> \o yyyy
    ELSE raw

\* playwright_crawler.py lines 94-118: the first non-empty date_raw becomes
\* the event's date as it is
CrawlerDate(raw) == IF raw # <<>> THEN raw ELSE <<>>

EmitDate ==
    /\ dpc = "page"
    /\ event_date' = IF d_class = "PlaywrightCrawler" THEN CrawlerDate(date_raw)
                                                      ELSE ScraperDate(date_raw)
    /\ dpc' = "event"
    /\ UNCHANGED <<d_class, date_raw>>
    /\ UNCHANGED <<mainVars, crawlVars, llmVars, textVars, pipeVars, rateVars, parseVars, linkVars>>

DateIdle ==
    /\ d_class = NONE /\ date_raw = <<>> /\ dpc = "idle" /\ event_date = <<>>

(***************************************************************************)
(* Link discovery.  A URL is a string of tokens: a scheme ("http://",      *)
(* "mailto:", "javascript:"), host parts ("home.com" is the homepage's     *)
(* domain), and path parts; `x in url` is the presence of the token.       *)
(***************************************************************************)
HomeUrl    == <<"http://", "home.com", "/">>
HomeDomain == "home.com"

Schemes   == {"http://", "mailto:", "javascript:"}
PathStart == {"/", "/news/", "?ref=", "#"}

\* ['#', 'login', 'signup', 'register', 'mailto:', 'javascript:']
Excluded == {"#", "login", "signup", "register", "mailto:", "javascript:"}

Contains(url, token) == token \in Range(url)
StartsWith(url, token) == url # <<>> /\ url[1] = token
EndsWith(url, token) == url # <<>> /\ url[Len(url)] = token

\* urllib.parse.urljoin(base, href) for the homepage as base
urljoin(base, href) ==
    CASE href = <<>>                     -> base
      [] href[1] \in Schemes             -> href
      [] href[1] \in {"/", "/news/"}     -> SubSeq(base, 1, 2) \o href
      [] OTHER                           -> base \o href

\* urlparse(url).netloc
netloc(url) ==
    IF ~StartsWith(url, "http://") THEN <<>>
    ELSE LET stops == {i \in 2..Len(url) : url[i] \in PathStart}
         IN  SubSeq(url, 2, IF stops = {} THEN Len(url) ELSE Min(stops) - 1)

\* an <a href=...> with the class of the link, the class of its parent and
\* whether it has an h2/h3 child
Anchor(href, link_class, parent_class, headline_child) ==
    [href |-> href, link_class |-> link_class, parent_class |-> parent_class,
     headline_child |-> headline_child]

\* trafilatura_crawler.py lines 24-43: the URL added for an anchor, in a set
\* that is empty when the anchor is skipped
StaticCandidate(a) ==
    LET full_url == urljoin(HomeUrl, a.href)
    IN  IF ~Contains(netloc(full_url), HomeDomain) THEN {}
        ELSE IF \E x \in Excluded : Contains(full_url, x) THEN {}
        ELSE IF \/ Contains(full_url, "/news/")
                \/ EndsWith(full_url, ".html")
                \/ a.parent_class = "teaser"
                \/ a.link_class \in {"teaser", "heading-link"}
             THEN {full_url}
             ELSE {}

\* html_fallback_crawler.py lines 20-30: homepage_domain is url.split('/')[2]
\* and is looked for in the whole href
FallbackCandidate(a) ==
    IF ~StartsWith(a.href, "http://") THEN {}
    ELSE IF ~Contains(a.href, HomeDomain) THEN {}
    ELSE IF \E x \in Excluded : Contains(a.href, x) THEN {}
    ELSE {a.href}

\* playwright_crawler.py lines 30-62
RenderedCandidate(a) ==
    LET href == a.href
        is_article ==
            \/ /\ Contains(href, "/news/")
               /\ ~StartsWith(href, "#") /\ ~StartsWith(href, "javascript:")
            \/ a.link_class = "article-links"
            \/ a.headline_child
            \/ a.parent_class = "card-title"
    IN  IF href = <<>> THEN {}
        ELSE IF ~is_article THEN {}
        ELSE IF StartsWith(href, "http://") THEN {href}
        ELSE {urljoin(HomeUrl, href)}

Candidate(backend, a) ==
    CASE backend = "trafilatura" -> StaticCandidate(a)
      [] backend = "html"        -> FallbackCandidate(a)
      [] OTHER                   -> RenderedCandidate(a)

\* the loop over the anchors of the homepage
Discover ==
    /\ ld_pc = "homepage"
    /\ candidate_links' = UNION {Candidate(ld_backend, anchors[i]) : i \in DOMAIN anchors}
    /\ ld_pc' = "collected"
    /\ UNCHANGED <<ld_backend, anchors>>
    /\ UNCHANGED <<mainVars, crawlVars, llmVars, textVars, pipeVars, rateVars, parseVars,
                   dateVars>>

LinkIdle ==
    /\ ld_backend = NONE /\ anchors = <<>> /\ ld_pc = "idle" /\ candidate_links = {}

RateIdle ==
    /\ now = 0 /\ last_called = 0 /\ rpc = "off" /\ wake_at = 0 /\ started = 0
    /\ cur_start = -1 /\ cur_first = -1 /\ prev_return = -1

LlmIdle ==
    /\ caller = NONE /\ endpoint = NONE /\ article = [headline |-> "h"] /\ lpc = "idle"
    /\ max_retries = 0 /\ attempt = 0 /\ requests = 0 /\ lastResponse = NoResponse
    /\ sleeps = <<>> /\ result = ResultNone /\ processed = NotProcessed

TextIdle ==
    /\ contents = <<>> /\ hashes = <<>> /\ q_articles = <<>> /\ q_metrics = <<>>

PipeIdle ==
    /\ articles = <<>> /\ ppc = "idle" /\ seen_hashes = {}
    /\ unique_articles = <<>> /\ duplicate_count = 0 /\ processed_articles = <<>>
    /\ p_module = NONE /\ input_file = NoPath /\ output_file = NotWritten

(***************************************************************************)
(* Specifications.                                                         *)
(***************************************************************************)
Quotas == UNION {[1..k -> 1..MaxQuota] : k \in 1..MaxSources}

Init ==
    /\ num_articles \in Quotas
    /\ src = 1 /\ pc = "trafilatura"
    /\ usable_events = <<>> /\ all_events = <<>> /\ calls = <<>>
    /\ lastCall = NoCall /\ used = ZeroCounts /\ counts = ZeroCounts
    /\ filtered_events = <<>> /\ per_site_counts = <<>>
    /\ CrawlIdle /\ LlmIdle /\ TextIdle /\ PipeIdle /\ RateIdle /\ ParseIdle /\ DateIdle /\ LinkIdle

Next == Static \/ HtmlFallback \/ Playwright \/ Extend \/ Report

Spec == Init /\ [][Next]_vars

InitCrawler ==
    /\ c_backend \in Range(Backends)
    /\ c_home \in HomeKinds
    /\ c_cands \in CandLists
    /\ c_max \in 1..(MaxUrl + 1)
    /\ c_result = NotCalled
    /\ MainIdle /\ LlmIdle /\ TextIdle /\ PipeIdle /\ RateIdle /\ ParseIdle /\ DateIdle /\ LinkIdle

NextCrawler == CrawlerCall

SpecCrawler == InitCrawler /\ [][NextCrawler]_vars

DirectText == [headline |-> "h", content |-> [len |-> 250, sentences |-> 4, keywords |-> 2]]

InitLLM ==
    /\ \/ /\ caller = "process_single_article"
          /\ article \in Articles
          /\ max_retries = 0
       \/ /\ caller = "direct"
          /\ article = DirectText
          /\ max_retries \in 1..MaxRetries
    /\ endpoint = DEFAULT_ENDPOINT
    /\ lpc = "start"
    /\ attempt = 0 /\ requests = 0 /\ lastResponse = NoResponse
    /\ sleeps = <<>> /\ result = ResultNone /\ processed = NotProcessed
    /\ MainIdle /\ CrawlIdle /\ TextIdle /\ PipeIdle /\ RateIdle /\ ParseIdle /\ DateIdle /\ LinkIdle

NextLLM == ProcessBegin \/ DirectCall \/ Request \/ ProcessFinish

SpecLLM == InitLLM /\ [][NextLLM]_vars

\* contents over two letter cases and two kinds of whitespace
HashAlphabet == {"a", "A", " ", "\n"}

InitHash ==
    /\ contents \in [1..2 -> Texts(HashAlphabet, MaxHashText)]
    /\ hashes = <<>> /\ q_articles = <<>> /\ q_metrics = <<>>
    /\ MainIdle /\ CrawlIdle /\ LlmIdle /\ PipeIdle /\ RateIdle /\ ParseIdle /\ DateIdle /\ LinkIdle

NextHash == Hash

SpecHash == InitHash /\ [][NextHash]_vars

\* written-out contents: two letters of the acronym AI in either case, the
\* sentence separator and a space
QualityAlphabet == {"a", "A", "I", ".", " "}

\* measured contents at and around every band limit
BoundaryContents ==
    [len : {199, 200, 250, 499, 500, 999, 1000}, sentences : {2, 3, 4, 5, 6},
     keywords : 0..5]

QualityContents ==
    {TextContent(t) : t \in Texts(QualityAlphabet, MaxQualityText)} \cup BoundaryContents

ABSENT == "<absent>"

\* a dict with the key only when a value is given
WithKey(d, k, v) == IF v = ABSENT THEN d ELSE ((k :> v) @@ d)

QualityArticles ==
    {WithKey(WithKey([headline |-> "h", content |-> c], "date", d), "article_url", u) :
        c \in QualityContents, d \in {ABSENT, "", "01.02.2024"}, u \in {ABSENT, "", "u"}}
    \cup {[headline |-> "h", date |-> "01.02.2024"]}

\* the measures of a content, as a measured content
Measured(c) ==
    [len |-> ContentLength(c), sentences |-> SentenceCount(c), keywords |-> TechKeywordCount(c)]

\* records to compare a with: no headline, further fields, another date,
\* another content of the same measures, and one without date
Variants(a) ==
    {a,
     Put(a, "headline", ""),
     Put(Put(a, "source_url", "s"), "quality_score", 10),
     IF GetText(a, "date") = "01.02.2024" THEN Put(a, "date", "05.06.2025") ELSE a,
     IF HasKey(a, "content") THEN Put(a, "content", Measured(a.content)) ELSE a,
     Pop(a, "date")}

InitQuality ==
    /\ q_articles \in UNION {{<<a, b>> : b \in Variants(a)} : a \in QualityArticles}
    /\ q_metrics = <<>> /\ contents = <<>> /\ hashes = <<>>
    /\ MainIdle /\ CrawlIdle /\ LlmIdle /\ PipeIdle /\ RateIdle /\ ParseIdle /\ DateIdle /\ LinkIdle

NextQuality == Assess

SpecQuality == InitQuality /\ [][NextQuality]_vars

\* the records an input file is made of: two with byte-identical content
\* and different urls, one whose content differs from theirs in letter case
\* and whitespace only, one without date, one with empty content, and one
\* that already carries a processing_status
Chip      == <<"c", "h", "i", "p">>
ChipAgain == <<"C", "h", "i", "p", " ">>
Wafer     == <<"w", "a", "f", "e", "r">>
Silicon   == <<"s", "i", "l", "i", "c", "o", "n">>

Scraped(headline, article_url, date, text) ==
    WithKey([headline |-> headline, article_url |-> article_url,
             content |-> TextContent(text)], "date", date)

PipelineArticles ==
    {Scraped("h1", "u1", "01.02.2024", Chip),
     Scraped("h2", "u2", "01.02.2024", Chip),
     Scraped("h3", "u3", "01.02.2024", ChipAgain),
     Scraped("h4", "u4", ABSENT, Wafer),
     Scraped("h5", "u5", "01.02.2024", <<>>),
     Put(Scraped("h6", "u6", "01.02.2024", Silicon), "processing_status", "success")}

InitPipeline ==
    /\ articles \in UNION {[1..k -> PipelineArticles] : k \in 0..MaxArticles}
    /\ ppc = "loaded" /\ seen_hashes = {} /\ unique_articles = <<>>
    /\ duplicate_count = 0 /\ processed_articles = <<>>
    /\ p_module = "process_articles_improved" /\ input_file = JsonFile(articles)
    /\ output_file = NotWritten
    /\ MainIdle /\ CrawlIdle /\ LlmIdle /\ TextIdle /\ RateIdle /\ ParseIdle /\ DateIdle /\ LinkIdle

NextPipeline == NoArticles \/ Deduplicate \/ ProcessArticle \/ Save

SpecPipeline == InitPipeline /\ [][NextPipeline]_vars

\* the limiter as constructed (line 80: last_called = 0.0) at a time of day
\* that is at least MinInterval after the epoch
InitRate ==
    /\ now = MinInterval /\ last_called = 0 /\ rpc = "idle" /\ wake_at = 0 /\ started = 0
    /\ cur_start = -1 /\ cur_first = -1 /\ prev_return = -1
    /\ MainIdle /\ CrawlIdle /\ LlmIdle /\ TextIdle /\ PipeIdle /\ ParseIdle /\ DateIdle /\ LinkIdle

NextRate == Tick \/ WrapperEnter \/ Wake \/ FuncEnter \/ FirstRequest \/ FuncReturn \/ Stamp

SpecRate == InitRate /\ [][NextRate]_vars

\* two-digit fields over two digits, and dates of every shape built of them
DateDigits == {"0", "1", "2"}
Field(k) == [1..k -> DateDigits]

DateRaws ==
    {mm \o <<".">> \o dd \o <<".">> \o y : mm \in Field(2), dd \in Field(2), y \in Field(2)}
    \cup {<<"1", "2", ".">> \o dd \o <<".">> \o y : dd \in Field(2), y \in Field(4)}
    \cup {y \o <<"-", "0", "1", "-">> \o dd : y \in Field(4), dd \in Field(2)}
    \cup {<<>>, <<"M", "a", "y", " ", "1">>, <<"0", "1", "/", "0", "2", "/", "2", "1">>,
          <<"0", "1", ".", "0", "2", ".", "2", "0", "2">>,
          <<"2", "0", "2", "1", "-", "0", "1", "-", "0", "2", "T">>}

InitDate ==
    /\ d_class \in {"PlaywrightCrawler", "PlaywrightNewsScraper"}
    /\ date_raw \in DateRaws
    /\ dpc = "page" /\ event_date = <<>>
    /\ MainIdle /\ CrawlIdle /\ LlmIdle /\ TextIdle /\ PipeIdle /\ RateIdle /\ ParseIdle /\ LinkIdle

NextDate == EmitDate

SpecDate == InitDate /\ [][NextDate]_vars

\* process_articles_sequentially called on a list of its own: records with
\* a content worth a call, a poor one, an empty one and a null one, and
\* records without a headline or with a null one
SequentialArticles ==
    {Scraped("h1", "u1", "01.02.2024", Chip),
     Scraped("h4", "u4", ABSENT, Wafer),
     Scraped("h5", "u5", "01.02.2024", <<>>),
     [headline |-> "h7", article_url |-> "u7", content |-> NullContent],
     [article_url |-> "u8", content |-> TextContent(Silicon)],
     Put(Scraped("h9", "u9", "01.02.2024", Chip), "headline", NONE)}

InitSequential ==
    /\ unique_articles \in UNION {[1..k -> SequentialArticles] : k \in 0..MaxArticles}
    /\ ppc = (IF unique_articles = <<>> THEN "save" ELSE "process")
    /\ articles = <<>> /\ seen_hashes = {} /\ duplicate_count = 0
    /\ processed_articles = <<>>
    /\ p_module = "process_articles_improved" /\ input_file = NoPath
    /\ output_file = NotWritten
    /\ MainIdle /\ CrawlIdle /\ LlmIdle /\ TextIdle /\ RateIdle /\ ParseIdle /\ DateIdle /\ LinkIdle

NextSequential == ProcessArticle

SpecSequential == InitSequential /\ [][NextSequential]_vars

\* hrefs of every kind the filters tell apart
Hrefs ==
    {<<"/news/", "a">>,
     <<"http://", "home.com", "/news/", "a">>,
     <<"http://", "sub.", "home.com", "/", "a", ".html">>,
     <<"http://", "other.com", "/news/", "a">>,
     <<"http://", "other.com", "/", "?ref=", "home.com">>,
     <<"#", "a">>,
     <<"/news/", "a", "#", "a">>,
     <<"mailto:", "a", "@", "home.com">>,
     <<"javascript:", "a">>,
     <<"/", "login">>,
     <<"http://", "home.com", "/", "register">>,
     <<"a", ".html">>,
     <<>>}

\* the markup a heuristic looks at, one feature at a time
Markups ==
    {<<"", "", FALSE>>, <<"teaser", "", FALSE>>, <<"heading-link", "", FALSE>>,
     <<"article-links", "", FALSE>>, <<"", "teaser", FALSE>>, <<"", "card-title", FALSE>>,
     <<"", "", TRUE>>}

Anchors == {Anchor(h, m[1], m[2], m[3]) : h \in Hrefs, m \in Markups}

InitLinks ==
    /\ ld_backend \in Range(Backends)
    /\ anchors \in UNION {[1..k -> Anchors] : k \in 1..MaxAnchors}
    /\ ld_pc = "homepage" /\ candidate_links = {}
    /\ MainIdle /\ CrawlIdle /\ LlmIdle /\ TextIdle /\ PipeIdle /\ RateIdle /\ ParseIdle
    /\ DateIdle

NextLinks == Discover

SpecLinks == InitLinks /\ [][NextLinks]_vars

InitParse ==
    /\ msg_content \in Texts(MessageTokens, MaxMessage)
    /\ json_payload = <<>> /\ parse_result = "unparsed"
    /\ MainIdle /\ CrawlIdle /\ LlmIdle /\ TextIdle /\ PipeIdle /\ RateIdle /\ DateIdle /\ LinkIdle

NextParse == ParseEnvelope

SpecParse == InitParse /\ [][NextParse]_vars

\* process_articles from its first line.  Of process_articles_sequential.py
\* only the loading and the empty-list return are followed, the rest of
\* its pipeline being other code than lines 495-527 modelled here.
InputFiles(module) ==
    {MISSING, INVALID} \cup
    (IF module = "process_articles_improved"
     THEN {JsonFile(list) : list \in UNION {[1..k -> PipelineArticles] : k \in 0..MaxArticles}}
     ELSE {JsonFile(<<>>)})

InitLoad ==
    /\ p_module \in Modules
    /\ input_file \in InputFiles(p_module)
    /\ output_file = NotWritten
    /\ articles = <<>> /\ ppc = "start" /\ seen_hashes = {} /\ unique_articles = <<>>
    /\ duplicate_count = 0 /\ processed_articles = <<>>
    /\ MainIdle /\ CrawlIdle /\ LlmIdle /\ TextIdle /\ RateIdle /\ ParseIdle /\ DateIdle /\ LinkIdle

NextLoad == Load \/ NoArticles \/ Deduplicate \/ ProcessArticle \/ Save

SpecLoad == InitLoad /\ [][NextLoad]_vars

\* contents with more positive words, more negative words, neither, a
\* blank one and none
MockTexts ==
    {<<"i", "n", "n", "o", "v", "a", "t", "i", "o", "n">>,
     <<"C", "h", "i", "p", ".", " ", "L", "o", "s", "s">>,
     <<"c", "h", "i", "p", " ", "l", "o", "s", "s", " ", "p", "r", "o", "f", "i", "t">>,
     Chip, ChipAgain, Wafer, Silicon,
     <<"a", ".", "b", ".", "c", ".", "d">>,
     <<" ">>,
     <<>>}

MockArticles ==
    {Scraped("h", u, d, t) : u \in {"", "u"}, d \in {ABSENT, "01.02.2024"}, t \in MockTexts}

InitMock ==
    /\ caller \in {"process_single_article", "process_articles.process_single_article"}
    /\ endpoint \in MockEndpoints
    /\ article \in MockArticles
    /\ lpc = "start"
    /\ max_retries = 0 /\ attempt = 0 /\ requests = 0 /\ lastResponse = NoResponse
    /\ sleeps = <<>> /\ result = ResultNone /\ processed = NotProcessed
    /\ MainIdle /\ CrawlIdle /\ TextIdle /\ PipeIdle /\ RateIdle /\ ParseIdle /\ DateIdle /\ LinkIdle

NextMock == ProcessBegin \/ Request \/ ProcessFinish \/ ProcessMock

SpecMock == InitMock /\ [][NextMock]_vars


(***************************************************************************)
(* Properties of the scraping loop (Spec).                                 *)
(***************************************************************************)
Sources == DOMAIN num_articles

\* the records of all_events that came from source i
FromSource(i) == SelectSeq(all_events, LAMBDA e : e.source_url = i)

\* the invocations made for source i, in order
CallsFor(i) == SelectSeq(calls, LAMBDA c : c.source = i)

\* C1: the aggregated output never holds more than n records of a source,
\* however many records the backends return.
C1_QuotaNeverExceeded ==
    \A i \in Sources : Len(FromSource(i)) <= num_articles[i]

\* a backend returned more records than the quota, the quota was filled and
\* the source's records were added to the output
C1_Witness ==
    /\ pc = "done"
    /\ lastCall.returned > num_articles[Len(num_articles)]
    /\ Len(FromSource(Len(num_articles))) = num_articles[Len(num_articles)]

\* C2: per source the backends are invoked in the order static, saved-HTML
\* fallback, rendered-page, each only while fewer than n records have been
\* accepted for the source, so that none is invoked once n are accepted.
C2_PriorityOrderAndGuard ==
    /\ \A i \in Sources :
          /\ Len(CallsFor(i)) <= Len(Backends)
          /\ \A j \in DOMAIN CallsFor(i) : CallsFor(i)[j].backend = Backends[j]
    /\ \A k \in DOMAIN calls : calls[k].before < num_articles[calls[k].source]
    /\ (src \in Sources /\ Len(usable_events) >= num_articles[src]) => pc = "extend"

\* the fallback filled the quota and the rendered-page backend is skipped
C2_Witness ==
    /\ pc = "extend"
    /\ lastCall.backend = "html"
    /\ Len(usable_events) = num_articles[src]
    /\ Len(CallsFor(src)) = 2

Before(k, backend) ==
    \E j \in 1..(k - 1) : calls[j].source = calls[k].source /\ calls[j].backend = backend

\* C3 as stated: the saved-HTML fallback is invoked only after both the
\* static and the rendered-page backend were tried for the source.
C3_FallbackAfterBothOthers ==
    \A k \in DOMAIN calls :
        calls[k].backend = "html" => Before(k, "trafilatura") /\ Before(k, "playwright")

\* C3 amended: the saved-HTML fallback is invoked for a source only after the
\* static backend was tried for it and left the quota unmet, and before the
\* rendered-page backend, which is tried only after the fallback.
C3_FallbackAfterStaticOnly ==
    \A k \in DOMAIN calls :
        /\ calls[k].backend = "html" =>
              /\ Before(k, "trafilatura")
              /\ ~Before(k, "playwright")
              /\ calls[k].before < num_articles[calls[k].source]
        /\ calls[k].backend = "playwright" => Before(k, "html")

\* the fallback has just been invoked, second, with the quota unmet
C3_Witness ==
    /\ lastCall.backend = "html"
    /\ Len(CallsFor(src)) = 2
    /\ pc = "playwright"

\* C4: a backend failing at homepage level loses only its own contribution:
\* the records accepted so far stay, the next backend in priority order is
\* up next (the quota being unmet), and every source gets processed.
C4_HomepageFailureIsLocal ==
    /\ [][(calls' # calls /\ lastCall'.home # "ok") =>
            /\ usable_events' = usable_events
            /\ all_events' = all_events
            /\ Len(usable_events) < num_articles[src]
            /\ src' = src
            /\ pc' = CASE lastCall'.backend = "trafilatura" -> "html"
                       [] lastCall'.backend = "html"        -> "playwright"
                       [] OTHER                             -> "extend"]_vars
    /\ [](pc = "done" => \A i \in Sources : Len(CallsFor(i)) >= 1)
    /\ [][pc = "extend" => /\ Len(all_events') = Len(all_events) + Len(usable_events)
                           /\ SubSeq(all_events', 1, Len(all_events)) = all_events]_vars

\* the second source's rendered-page backend failed on the homepage after a
\* record had been accepted for it and for the first source
C4_Witness ==
    /\ src = 2
    /\ lastCall.backend = "playwright" /\ lastCall.home # "ok" /\ lastCall.raised
    /\ Len(usable_events) = 1
    /\ Len(all_events) >= 1
    /\ pc = "extend"


(***************************************************************************)
(* Properties of one backend call (SpecCrawler).                           *)
(***************************************************************************)
CandIndexes == 1..NumCands(c_cands)

Visited(i) == CandUrl(c_cands, i) \in Range(c_result.visited)

\* the backend builds a record from candidate i and keeps it
YieldsRecord(i) ==
    CASE c_backend = "trafilatura" -> CandPage(c_cands, i) \notin {"raise", "none"}
      [] c_backend = "html"        -> CandPage(c_cands, i) # "raise"
      [] OTHER                     -> CandPage(c_cands, i) = "good"

\* the backend's own reason to stop visiting: enough records, or, for the
\* fallback, max_articles candidates visited
StoppedByLimit ==
    \/ Len(c_result.events) >= c_max
    \/ c_backend = "html" /\ Len(c_result.visited) >= c_max

SomeVisitedCandidateRaised ==
    \E i \in CandIndexes : Visited(i) /\ CandPage(c_cands, i) = "raise"

\* C5: in each backend a candidate whose fetch or parse raises is skipped
\* alone: the call still returns, with the records of the candidates visited
\* before it, and the candidates after it are visited up to the backend's
\* limit.
C5_CandidateFailureIsLocal ==
    (c_result.called /\ c_home = "ok" /\ SomeVisitedCandidateRaised) =>
        /\ ~c_result.raised
        /\ \A i \in CandIndexes :
              (Visited(i) /\ YieldsRecord(i)) =>
                  Event(1, CandUrl(c_cands, i), CandPage(c_cands, i)) \in Range(c_result.events)
        /\ ~StoppedByLimit => \A i \in CandIndexes : Visited(i)

\* the same statement for the two backends that have a per-candidate handler
C5_HoldsForFallbackAndRendered ==
    c_backend # "trafilatura" => C5_CandidateFailureIsLocal


(***************************************************************************)
(* Properties of the annotation client (SpecLLM).                          *)
(***************************************************************************)
CallEnded == lpc \in {"returned", "done"}

\* C6: for every max_retries >= 1 a delivered but structurally invalid
\* response ends the call as a failure: no further request is issued.
C6_MalformedIsTerminal ==
    Malformed(lastResponse) => CallEnded /\ result.none

\* C7: a transport failure on the first attempt of the request that
\* process_single_article issues is followed by a backoff and a second
\* attempt; the record is marked failed only after more than one attempt.
C7_TransportFailureIsRetried ==
    (caller = "process_single_article" /\ lastResponse.kind = "transport" /\ CallEnded) =>
        requests > 1 /\ Len(sleeps) >= 1

\* C8: an empty response body makes call_llm return failure without any
\* further request, whatever max_retries is, and process_single_article
\* outputs the record with processing_status = failed.
C8_EmptyBodyIsTerminal ==
    lastResponse.kind = "empty" =>
        /\ CallEnded
        /\ result.none
        /\ lpc = "done" => processed.processing_status = "failed"

\* an empty body answered the first of two allowed attempts
C8_Witness ==
    /\ lastResponse.kind = "empty"
    /\ caller = "direct" /\ max_retries = 2 /\ requests = 1
    /\ lpc = "returned"

ScoringFields ==
    {"quality_score", "quality_factors", "content_length", "sentence_count",
     "tech_keyword_count"}

LowQualityInput ==
    /\ caller = "process_single_article"
    /\ GetContent(article).len > 0
    /\ assess_content_quality(article).quality_score < QualityThreshold

\* C9: a record with non-empty content scoring below 3 causes no LLM call
\* and is output with processing_status = low_quality, without its content
\* and with the five scoring fields.
C9_LowQualitySkipsAnnotation ==
    LowQualityInput =>
        /\ requests = 0
        /\ lpc \in {"start", "done"}
        /\ lpc = "done" =>
              /\ processed.processing_status = "low_quality"
              /\ ~HasKey(processed, "content")
              /\ ScoringFields \subseteq DOMAIN processed
              /\ processed.quality_score = assess_content_quality(article).quality_score
              /\ processed.content_length = GetContent(article).len

\* a record scoring 2 has been output
C9_Witness ==
    /\ LowQualityInput
    /\ assess_content_quality(article).quality_score = 2
    /\ lpc = "done"

\* C10: a record output with processing_status = success carries an
\* enumerated sentiment, an enumerated relevant value and a summary that is
\* present, not null and not empty after trimming.
C10_SuccessIsValidated ==
    processed.processing_status = "success" =>
        /\ processed.sentiment \in Sentiments
        /\ processed.relevant \in Relevants
        /\ processed.summary # NONE
        /\ IsString(processed.summary)
        /\ Strip(processed.summary) # ""

\* a flat answer was accepted
C10_Witness ==
    /\ processed.processing_status = "success"
    /\ lastResponse.kind = "flat"
    /\ requests = 1

\* the annotation call of process_single_article has failed: call_llm gave
\* None, after a transport failure or an unparsable or invalid response
FailedCall ==
    /\ caller = "process_single_article"
    /\ lpc = "done"
    /\ Gate(article) = "call_llm"
    /\ \/ result.none
       \/ lastResponse.kind = "transport"
       \/ Malformed(lastResponse)

RECURSIVE CollapseFrom(_, _)
CollapseFrom(s, i) ==
    IF i > Len(s) THEN <<>>
    ELSE IF s[i] \notin Whitespace THEN <<s[i]>> \o CollapseFrom(s, i + 1)
    ELSE IF i > 1 /\ s[i - 1] \in Whitespace THEN CollapseFrom(s, i + 1)
    ELSE <<" ">> \o CollapseFrom(s, i + 1)

Collapsed(s) == CollapseFrom(str_lower(s), 1)

\* Collapsed without its leading and trailing space
Normalized(s) ==
    LET c     == Collapsed(s)
        first == IF Len(c) > 0 /\ c[1] = " " THEN 2 ELSE 1
        last  == IF Len(c) > 0 /\ c[Len(c)] = " " THEN Len(c) - 1 ELSE Len(c)
    IN  SubSeq(c, first, last)

Assessed == DOMAIN q_metrics

\* the key is there with a non-empty value
Present(a, k) == HasKey(a, k) /\ a[k] \notin {NONE, ""}

LengthBand(n)   == IF n < 200 THEN 0 ELSE IF n <= 499 THEN 1 ELSE IF n <= 999 THEN 2 ELSE 3
SentenceBand(n) == IF n < 3 THEN 0 ELSE IF n <= 5 THEN 1 ELSE 2
KeywordBand(n)  == IF n = 0 THEN 0 ELSE IF n <= 2 THEN 1 ELSE IF n <= 4 THEN 2 ELSE 3

FiveValues(i) ==
    <<q_metrics[i].content_length, q_metrics[i].sentence_count,
      q_metrics[i].tech_keyword_count, Present(q_articles[i], "date"),
      Present(q_articles[i], "article_url")>>

\* C19: every quality_score is an integer in [0, 10], and two records that
\* agree on content length, sentence count, keyword count, date presence
\* and article_url presence get the same score, whatever their other fields
\* are and whichever was assessed first.
C19_ScoreBoundedAndDetermined ==
    /\ \A i \in Assessed : q_metrics[i].quality_score \in 0..10
    /\ \A i, j \in Assessed :
          FiveValues(i) = FiveValues(j) => q_metrics[i].quality_score = q_metrics[j].quality_score

\* two different records with the same five values were both scored 10
C19_Witness ==
    /\ Len(q_metrics) = 2
    /\ q_articles[1] # q_articles[2]
    /\ GetText(q_articles[1], "headline") # GetText(q_articles[2], "headline")
    /\ FiveValues(1) = FiveValues(2)
    /\ q_metrics[1].quality_score = 10
    /\ q_metrics[2].quality_score = 10

\* the vocabulary terms a text contains when letter case is ignored
TermsIgnoringCase(text) ==
    {k \in DOMAIN tech_keywords : str_in(str_lower(tech_keywords[k]), str_lower(text))}

\* C20: a content that contains a vocabulary term, the acronyms and company
\* names included, in any letter case counts one hit for that term.
C20_KeywordMatchIgnoresCase ==
    \A i \in Assessed :
        LET content == GetContent(q_articles[i])
        IN  IsText(content) =>
                q_metrics[i].tech_keyword_count = Cardinality(TermsIgnoringCase(content.text))

(***************************************************************************)
(* Properties of process_articles (SpecPipeline).                          *)
(***************************************************************************)
Loaded == DOMAIN articles

HasNoContent(a) == ContentLength(GetContent(a)) = 0

\* C12: a record whose content is the empty string leaves the pipeline
\* (deduplicate_articles, then process_single_article) with
\* processing_status = no_content and without having been scored.
C12_EmptyContentLeavesAsNoContent ==
    ppc = "done" =>
        \A i \in Loaded :
            HasNoContent(articles[i]) =>
                \E j \in DOMAIN processed_articles :
                    /\ processed_articles[j].article_url = articles[i].article_url
                    /\ processed_articles[j].processing_status = "no_content"
                    /\ ~HasKey(processed_articles[j], "quality_score")

\* C14: a record that enters the pipeline carrying a processing_status
\* leaves process_articles_sequentially with that status.
C14_StatusIsNeverRevised ==
    \A j \in DOMAIN processed_articles :
        HasKey(unique_articles[j], "processing_status") =>
            processed_articles[j].processing_status = unique_articles[j].processing_status

\* what does hold: a status written to processed_articles is not written
\* again
C14_WrittenStatusIsKept ==
    [][\A j \in DOMAIN processed_articles :
          processed_articles'[j] = processed_articles[j]]_vars

\* the dedup key of the i-th loaded record: its content lowercased, trimmed
\* and with every whitespace run collapsed
Key(i) == Normalized(GetContent(articles[i]).text)

FirstOfKey(i) == \A j \in 1..(i - 1) : Key(j) # Key(i)

RECURSIVE FirstRecords(_)
FirstRecords(i) ==
    IF i = 0 THEN <<>>
    ELSE FirstRecords(i - 1) \o (IF FirstOfKey(i) THEN <<articles[i]>> ELSE <<>>)

WithoutHash(records) == [i \in DOMAIN records |-> Pop(records[i], "content_hash")]

AllHaveContent == \A i \in Loaded : ~HasNoContent(articles[i])

C16_EveryDroppedRecordIsCounted ==
    ppc # "loaded" => Len(unique_articles) + duplicate_count = Len(articles)

(***************************************************************************)
(* Properties of the mock endpoint (SpecMock).                             *)
(***************************************************************************)
\* requests that reach the network: a post to an endpoint that is no URL
\* fails before a connection is opened
NetworkRequests == IF endpoint \in MockEndpoints THEN 0 ELSE requests

\* the record has content and, where there is a quality gate, passes it
Annotatable ==
    /\ ContentLength(GetContent(article)) > 0
    /\ caller = "process_single_article" => Gate(article) = "call_llm"

RuleBased ==
    /\ processed.sentiment \in {"positive", "neutral", "negative"}
    /\ Len(processed.summary) > 0
    /\ GetContent(article).text = <<"i", "n", "n", "o", "v", "a", "t", "i", "o", "n">>
         => /\ processed.sentiment = "positive"
            /\ processed.summary = GetContent(article).text

\* C13: with the endpoint 'mock', annotating a record that has content and
\* passes the quality gate makes no network request and yields a rule-based
\* sentiment and summary with processing_status = success, in
\* process_articles_improved.py as well as in process_articles.py.
C13_MockAnnotatesWithoutNetwork ==
    (endpoint \in MockEndpoints /\ Annotatable /\ lpc = "done") =>
        /\ NetworkRequests = 0
        /\ processed.processing_status = "success"
        /\ RuleBased

\* what does hold: the same for process_articles.py alone
C13_HoldsForProcessArticles ==
    (caller = "process_articles.process_single_article" /\ endpoint \in MockEndpoints
     /\ Annotatable /\ lpc = "done") =>
        /\ requests = 0
        /\ processed.processing_status = "success"
        /\ RuleBased

(***************************************************************************)
(* Properties of the report and of the accepted records (Spec).            *)
(***************************************************************************)
\* C22: in the per-source report the slice attributed to a source holds
\* exactly the records accepted for that source: the reported extracted
\* count is the number of records accepted for it and every record of the
\* slice has that source as source_url, also when an earlier source
\* delivered fewer records than its quota.
C22_SliceIsTheSourcesRecords ==
    pc = "done" =>
        \A i \in Sources :
            /\ per_site_counts[i].total = Len(FromSource(i))
            /\ SiteEvents(i) = FromSource(i)
            /\ \A k \in DOMAIN SiteEvents(i) : SiteEvents(i)[k].source_url = i

\* C23: every aggregated record is usable, so the final usability pass
\* changes nothing: the filtered list is the aggregated list, in the same
\* order, and no source reports a filtered-out record.
C23_FinalPassIsNoOp ==
    /\ \A k \in DOMAIN all_events : IsUsable(all_events[k])
    /\ pc = "done" =>
          /\ filtered_events = all_events
          /\ \A i \in Sources : per_site_counts[i].cut = 0

\* the final pass has run over the records of two sources, the first of
\* which delivered fewer records than its quota, after the rendered-page
\* backend was the last one to contribute
C23_Witness ==
    /\ pc = "done"
    /\ Len(num_articles) = 2
    /\ Len(FromSource(1)) < num_articles[1]
    /\ Len(FromSource(1)) >= 1 /\ Len(FromSource(2)) >= 1
    /\ lastCall.backend = "playwright" /\ lastCall.returned >= 1
    /\ filtered_events = all_events

\* C29: the records accepted for one source have pairwise distinct
\* article_url values: a URL accepted from an earlier backend is not accepted
\* again when a later backend returns it for the same source.
C29_AcceptedUrlsAreDistinct ==
    /\ \A j, k \in DOMAIN usable_events :
          j # k => usable_events[j].article_url # usable_events[k].article_url
    /\ \A i \in Sources : \A j, k \in DOMAIN FromSource(i) :
          j # k => FromSource(i)[j].article_url # FromSource(i)[k].article_url

(***************************************************************************)
(* When the static backend stops visiting candidates (SpecCrawler).        *)
(***************************************************************************)
StaticCallEnded == c_result.called /\ c_backend = "trafilatura" /\ c_home = "ok"

\* the candidates the call visited and built a record from
RecordsBuilt ==
    {i \in CandIndexes : Visited(i) /\ CandPage(c_cands, i) \notin {"raise", "none"}}

UsableRecordsBuilt ==
    {i \in RecordsBuilt : IsUsable(Event(1, CandUrl(c_cands, i), CandPage(c_cands, i)))}

CandidatesExhausted == \A i \in CandIndexes : Visited(i)

\* the most recently visited candidate made the fetch or the parse raise
StoppedByException ==
    /\ c_result.visited # <<>>
    /\ \E i \in CandIndexes :
          /\ CandUrl(c_cands, i) = c_result.visited[Len(c_result.visited)]
          /\ CandPage(c_cands, i) = "raise"

\* C26 as stated: the static extractor stops visiting candidates only when
\* it has collected max_articles usable records or the candidates are
\* exhausted; a record that is not usable does not count toward max_articles.
C26_StopsAtUsableRecords ==
    StaticCallEnded =>
        \/ Cardinality(UsableRecordsBuilt) >= c_max
        \/ CandidatesExhausted

\* C26 amended: the static extractor stops visiting candidates only when it
\* has collected max_articles records, usable or not, when the candidates
\* are exhausted, or when fetching or parsing a candidate raises; every
\* record built counts toward max_articles, so it never returns more than
\* max_articles records.
C26_StopsAtAnyRecords ==
    StaticCallEnded =>
        /\ \/ Cardinality(RecordsBuilt) = c_max
           \/ CandidatesExhausted
           \/ StoppedByException
        /\ Cardinality(RecordsBuilt) <= c_max
        /\ Len(c_result.events) <= c_max
        /\ ~c_result.raised => Len(c_result.events) = Cardinality(RecordsBuilt)

\* asked for one record, the backend returned after a first candidate whose
\* record is not usable, leaving the second candidate unvisited
C26_Witness ==
    /\ StaticCallEnded /\ ~c_result.raised
    /\ c_max = 1
    /\ NumCands(c_cands) = 2
    /\ Len(c_result.visited) = 1
    /\ Len(c_result.events) = 1
    /\ ~IsUsable(c_result.events[1])

(***************************************************************************)
(* Properties of loading (SpecLoad).                                       *)
(***************************************************************************)
Unreadable == input_file \in {MISSING, INVALID}

\* no record has been deduplicated, scored, sent to the LLM or written
NothingDone ==
    /\ articles = <<>> /\ seen_hashes = {} /\ unique_articles = <<>>
    /\ duplicate_count = 0 /\ processed_articles = <<>>
    /\ output_file = NotWritten

LoadErrors == {"FileNotFoundError", "JSONDecodeError"}

\* C24 as stated: when the input file is missing or is not valid JSON,
\* process_articles aborts by raising an error before any record is
\* deduplicated, scored, sent to the LLM or written, in
\* process_articles_improved.py and in process_articles_sequential.py.
C24_UnreadableInputRaises ==
    (Unreadable /\ ppc # "start") => (ppc \in LoadErrors /\ NothingDone)

\* C24 amended: on such a file process_articles of
\* process_articles_improved.py aborts by raising FileNotFoundError or
\* JSONDecodeError, and process_articles of process_articles_sequential.py
\* returns without raising; in both no record is deduplicated, scored, sent
\* to the LLM or written.
C24_UnreadableInputEndsTheRun ==
    (Unreadable /\ ppc # "start") =>
        /\ NothingDone
        /\ p_module = "process_articles_improved" =>
              ppc = (IF input_file = MISSING THEN "FileNotFoundError" ELSE "JSONDecodeError")
        /\ p_module = "process_articles_sequential" => ppc \in {"loaded", "done"}

\* process_articles of process_articles_improved.py has raised on a file
\* that is not valid JSON
C24_Witness ==
    /\ p_module = "process_articles_improved"
    /\ input_file = INVALID
    /\ ppc = "JSONDecodeError"

Depth(s, i, j) ==
    Cardinality({m \in i..j : s[m] = "{"}) - Cardinality({m \in i..j : s[m] = "}"})

\* s[i..j] is a balanced span: opened at i and closed for the first time at j
BalancedSpan(s, i, j) ==
    /\ s[i] = "{" /\ s[j] = "}"
    /\ Depth(s, i, j) = 0
    /\ \A m \in i..(j - 1) : Depth(s, i, m) > 0

SpanStarts(s) == {i \in 1..Len(s) : \E j \in i..Len(s) : BalancedSpan(s, i, j)}

\* the first balanced {...} span of the message, <<>> when there is none
FirstBalancedSpan(s) ==
    IF SpanStarts(s) = {} THEN <<>>
    ELSE LET i == Min(SpanStarts(s))
             j == Min({m \in i..Len(s) : BalancedSpan(s, i, m)})
         IN  SubSeq(s, i, j)

AnswerObject == <<"{", "a", "}">>

\* C27: when the first balanced {...} span of the assistant message is a
\* valid answer object, call_llm extracts that answer, whatever text stands
\* before and after the object, text with braces included.
C27_FirstBalancedSpanIsParsed ==
    (parse_result # "unparsed" /\ FirstBalancedSpan(msg_content) = AnswerObject) =>
        parse_result = "answer"

\* the same for messages without a brace outside the answer object: this
\* much the code does
C27_HoldsWithoutOtherBraces ==
    (/\ parse_result # "unparsed"
     /\ FirstBalancedSpan(msg_content) = AnswerObject
     /\ Cardinality(Positions(msg_content, "{")) = 1
     /\ Cardinality(Positions(msg_content, "}")) = 1) =>
        parse_result = "answer"

(***************************************************************************)
(* Properties of the emitted date (SpecDate).                              *)
(***************************************************************************)
DotAt(s, i)  == i \in 1..Len(s) /\ s[i] = "."
DashAt(s, i) == i \in 1..Len(s) /\ s[i] = "-"
OnlyDigitsBut(s, seps) == \A i \in (1..Len(s)) \ seps : s[i] \in DigitChars

IsMMDDYYYY(s) == Len(s) = 10 /\ DotAt(s, 3) /\ DotAt(s, 6) /\ OnlyDigitsBut(s, {3, 6})
IsMMDDYY(s)   == Len(s) = 8 /\ DotAt(s, 3) /\ DotAt(s, 6) /\ OnlyDigitsBut(s, {3, 6})
IsISO(s)      == Len(s) = 10 /\ DashAt(s, 5) /\ DashAt(s, 8) /\ OnlyDigitsBut(s, {5, 8})

\* what the emitted date is to be for a raw value
DateAsSpecified(raw, out) ==
    CASE IsMMDDYYYY(raw) -> out = raw
      [] IsMMDDYY(raw)   ->
            /\ IsMMDDYYYY(out)
            /\ SubSeq(out, 1, 6) = SubSeq(raw, 1, 6)
            /\ SubSeq(out, 7, 8) = <<"2", "0">>
            /\ SubSeq(out, 9, 10) = SubSeq(raw, 7, 8)
      [] IsISO(raw)      ->
            /\ IsMMDDYYYY(out)
            /\ SubSeq(out, 1, 2) = SubSeq(raw, 6, 7)
            /\ SubSeq(out, 4, 5) = SubSeq(raw, 9, 10)
            /\ SubSeq(out, 7, 10) = SubSeq(raw, 1, 4)
      [] OTHER           -> out = raw

\* C28: every date emitted by PlaywrightCrawler.extract_articles whose raw
\* value has the form MM.DD.YY, MM.DD.YYYY or YYYY-MM-DD is emitted as
\* MM.DD.YYYY (an MM.DD.YYYY value as it is, then the two-digit year
\* expanded, then the ISO date reordered), and any other raw value is passed
\* through unchanged.
C28_CrawlerDateIsNormalized ==
    (dpc = "event" /\ d_class = "PlaywrightCrawler") => DateAsSpecified(date_raw, event_date)

\* the same statement for PlaywrightNewsScraper.extract_events
C28_HoldsForNewsScraper ==
    (dpc = "event" /\ d_class = "PlaywrightNewsScraper") => DateAsSpecified(date_raw, event_date)

(***************************************************************************)
(* Properties of process_articles_sequentially (SpecSequential).           *)
(***************************************************************************)
Statuses == {"success", "failed", "no_content", "low_quality", "error"}

\* the function has ended, by returning or by an exception
SequentialEnded == ppc # "process"

\* one output record per input record, in input order, each with a status
OneRecordPerInput ==
    /\ Len(processed_articles) = Len(unique_articles)
    /\ \A i \in DOMAIN processed_articles :
          /\ processed_articles[i].article_url = unique_articles[i].article_url
          /\ processed_articles[i].processing_status \in Statuses

\* C30: process_articles_sequentially returns exactly one output record per
\* input record, in input order, each carrying a processing_status from
\* {success, failed, no_content, low_quality, error}, whatever the endpoint
\* does and also when processing a record raises; the input records are left
\* unmodified.
C30_OneOutputRecordPerInput ==
    /\ SequentialEnded => (ppc = "save" /\ OneRecordPerInput)
    /\ \A i \in DOMAIN unique_articles : unique_articles[i] \in SequentialArticles

\* the same statement for lists in which no headline is null: a record
\* whose processing raises inside the try leaves as an error record
C30_HoldsForStringHeadlines ==
    (SequentialEnded /\ \A i \in DOMAIN unique_articles : ~LogLineRaises(unique_articles[i]))
        => /\ ppc = "save" /\ OneRecordPerInput
           /\ \A i \in DOMAIN unique_articles :
                 ProcessingRaises(unique_articles[i]) <=>
                     processed_articles[i].processing_status = "error"

(***************************************************************************)
(* Properties of link discovery (SpecLinks).                               *)
(***************************************************************************)
\* an absolute URL whose network domain contains the homepage's domain
OnHomeDomain(url) ==
    /\ StartsWith(url, "http://")
    /\ \E i \in 2..Len(url) :
          /\ url[i] = HomeDomain
          /\ \A j \in 2..i : url[j] \notin PathStart

\* no anchor link, mailto: link, javascript: link, login or registration path
NoExcludedKind(url) ==
    /\ ~Contains(url, "#")
    /\ ~StartsWith(url, "mailto:") /\ ~StartsWith(url, "javascript:")
    /\ ~Contains(url, "login") /\ ~Contains(url, "signup") /\ ~Contains(url, "register")

CandidatesWithinContract ==
    \A url \in candidate_links : OnHomeDomain(url) /\ NoExcludedKind(url)

\* C21: in each of the three backends every candidate URL of link discovery
\* is an absolute URL whose network domain contains the homepage's domain
\* and is never an anchor link, a mailto: link, a javascript: link or a
\* login/registration path, whichever acceptance heuristic selected it.
C21_CandidatesWithinContract ==
    ld_pc = "collected" => CandidatesWithinContract

\* the same statement for the static backend alone
C21_HoldsForStatic ==
    (ld_pc = "collected" /\ ld_backend = "trafilatura") => CandidatesWithinContract

\* the saved-HTML fallback keeps the excluded kinds out but not other domains
C21_FallbackExcludesKinds ==
    (ld_pc = "collected" /\ ld_backend = "html") =>
        \A url \in candidate_links : StartsWith(url, "http://") /\ NoExcludedKind(url)

============================================================================
